---- MODULE Spec2Model ----
(***************************************************************************)
(* A model of the Z3 trace parser of the Axiom Profiler                    *)
(* (smt-log-parser/src/parsers/z3/z3parser.rs).  One action per log line   *)
(* handler; the parser state is the fields of Z3Parser.                    *)
(*                                                                         *)
(* Conventions.  Option<T> is a sequence of length 0 (None) or 1 (Some).   *)
(* Arena indices (TermIdx, QuantIdx, InstIdx) are 1-based positions in the *)
(* arena sequence (the code's are 0-based).  A hash map is a function on   *)
(* the set of its keys.  A textual term id "#n" is the number n.           *)
(***************************************************************************)
EXTENDS Integers, Sequences, FiniteSets, TLC

\* ---------------------------------------------------------------- bounds
\* Most lines of a log.
MaxLines == 9
\* Most terms a log declares.
MaxTerms == 2
\* Most new-match / inst-discovered lines of a log.
MaxMatches == 2
\* Most instance lines of a log.
MaxInsts == 2
\* Most attach-enode lines of a log that may hold any line.
MaxAttach == 1
\* Most attach-enode lines of a log.
MaxAttachAgain == 2
\* Most attach-meaning / attach-var-names lines of a log.
MaxMeta == 3
\* Most eq-expl lines of a log.
MaxEqExpl == 2

\* The textual term ids a line may mention.
TermIds == {1, 2}
\* The fingerprints a line may mention.
Fingerprints == {10, 20}

VARIABLES
    terms,              \* TiVec<TermIdx, Term>
    term_map,           \* IdxMap::term_map
    discovered_map,     \* IdxMap::discovered_map
    quantifiers,        \* TiVec<QuantIdx, Quantifier>
    matches,            \* FxHashMap<Fingerprint, Instantiation>
    instantiations,     \* TiVec<InstIdx, Instantiation>
    inst_stack,         \* Vec<InstIdx>
    temp_dependencies,  \* FxHashMap<usize, Vec<Dependency>>
    dependencies,       \* Vec<Dependency>
    line_no,            \* 0-based number of the next line of the log
    status,             \* "ok", "error" (a handler returned None), "panic"
    consumed,           \* how many lines of each tag the log had so far
    line,               \* the line handled last: its tag, its first token
                        \* (an id or a fingerprint), whether its other
                        \* tokens are well formed, its number, and the
                        \* tokens a declaration or a discovery carries
    svg_result,         \* Option<SVGResult>: the component of the GUI
    msgs                \* the request the component handled last, the names
                        \* of the two before, the message its handler sent,
                        \* the renders in flight, and the finished render
                        \* handled last

\* The component of the GUI and its messages.
gui == <<svg_result, msgs>>

\* The parser and what the line loop keeps.
parser == <<terms, term_map, discovered_map, quantifiers, matches, instantiations,
            inst_stack, temp_dependencies, dependencies, line_no, status, consumed,
            line>>

vars == <<parser, gui>>

\* The fields of Z3Parser the handlers write.
store == <<terms, term_map, discovered_map, quantifiers, matches, instantiations,
           inst_stack, temp_dependencies, dependencies>>

\* ---------------------------------------------------------------- helpers
None == <<>>
Some(x) == <<x>>
IsSome(o) == o # <<>>
Unwrap(o) == o[1]

EmptyMap == <<>>
MapGet(m, k) == IF k \in DOMAIN m THEN Some(m[k]) ELSE None
\* An insert that keeps the value a key already has.
MapInsertKeep(m, k, v) == [x \in (DOMAIN m) \cup {k} |-> IF x \in DOMAIN m THEN m[x] ELSE v]
MapInsert(m, k, v) == [x \in (DOMAIN m) \cup {k} |-> IF x = k THEN v ELSE m[x]]

Last(s) == s[Len(s)]
Front(s) == SubSeq(s, 1, Len(s) - 1)

\* Sequences over S of length at most n.
SeqsUpTo(S, n) == UNION {[1..k -> S] : k \in 0..n}

RECURSIVE Concat(_)
Concat(ss) == IF ss = <<>> THEN <<>> ELSE Head(ss) \o Concat(Tail(ss))

\* ---------------------------------------------------------------- IdxMap
get_term(id) == MapGet(term_map, id)

\* parse_existing_id: None is never returned for a well-formed id; an id that
\* is not registered makes the unwrap panic.
Resolves(id) == id \in DOMAIN term_map
parse_existing_id(id) == term_map[id]
AllResolve(ids) == \A i \in DOMAIN ids : Resolves(ids[i])
\* Children taken by the number of their textual id, not by the term bound to it.
gobble_children_by_id(ids) == ids
gobble_children(ids) == [i \in DOMAIN ids |-> parse_existing_id(ids[i])]

\* ---------------------------------------------------------------- outcomes
\* A line is handled only while no earlier line panicked or failed.
Running == status = "ok"

\* The logs considered declare their terms in a prefix: every line so far
\* was a declaration.
InPreamble == line_no = Len(terms)

Tags == {"mk-app", "mk-quant", "new-match", "inst-discovered", "instance",
         "end-of-instance", "attach-enode", "attach-meaning", "attach-var-names",
         "eq-expl"}

\* The line is consumed whatever the handler does with it.
ConsumeArg(tag, key, wf, arg) ==
    /\ line_no < MaxLines
    /\ line' = [tag |-> tag, key |-> key, wf |-> wf, no |-> line_no, arg |-> arg]
    /\ line_no' = line_no + 1
    /\ consumed' = [consumed EXCEPT ![tag] = @ + 1]
    /\ UNCHANGED gui
Consume(tag, key, wf) == ConsumeArg(tag, key, wf, <<>>)

Panic == status' = "panic"
Fail == status' = "error"
Succeed == status' = "ok"

\* ---------------------------------------------------------------- terms
\* Most children of a declared term.
MaxChildren == 1
ChildLists == SeqsUpTo(TermIds, MaxChildren)

AppKind == <<"App">>
\* A kind that carries the index of the quantifier pushed before.
QuantTermKindPrevious(qidx) == <<"Quant", qidx - 1>>
QuantTermKind(qidx) == <<"Quant", qidx>>
\* TermKind::quant_idx
quant_idx(kind) == IF kind[1] = "Quant" THEN Some(kind[2]) ELSE None

Term(id, kind, children) ==
    [id |-> id, kind |-> kind, meaning |-> None, child_ids |-> children,
     dep_term_ids |-> <<>>, resp_inst |-> None, equality_expls |-> <<>>]

\* The loop of new_term: every occurrence of a child gets idx pushed.
RECURSIVE PushDepTerm(_, _, _)
PushDepTerm(ts, children, idx) ==
    IF children = <<>> THEN ts
    ELSE LET c == Head(children) IN
         PushDepTerm([ts EXCEPT ![c].dep_term_ids = Append(@, idx)],
                     Tail(children), idx)

\* A registration that leaves an id that is bound already with its term.
register_term_once(id, idx) ==
    IF id \in DOMAIN term_map THEN term_map ELSE MapInsert(term_map, id, idx)

\* IdxMap::register_term: the map once id is bound to idx.
register_term(id, idx) == MapInsert(term_map, id, idx)

\* Z3Parser::new_term
NewTerm(id, term) ==
    LET idx == Len(terms) + 1 IN
    /\ terms' = Append(PushDepTerm(terms, term.child_ids, idx), term)
    /\ term_map' = register_term(id, idx)

\* [mk-app] / [mk-proof]
MkProofApp(id, children) ==
    /\ Running
    /\ InPreamble
    /\ consumed["mk-app"] + consumed["mk-quant"] < MaxTerms
    /\ ConsumeArg("mk-app", id, TRUE, children)
    /\ IF ~AllResolve(children)
       THEN Panic /\ UNCHANGED store
       ELSE /\ NewTerm(id, Term(id, AppKind, gobble_children(children)))
            /\ Succeed
            /\ UNCHANGED <<discovered_map, quantifiers, matches, instantiations,
                           inst_stack, temp_dependencies, dependencies>>

Quantifier(kind, term) ==
    [kind |-> kind, num_vars |-> 0, term |-> term, instances |-> <<>>,
     cost |-> 0, vars |-> None]

\* [mk-quant] / [mk-lambda]
MkQuant(id, children) ==
    /\ Running
    /\ InPreamble
    /\ consumed["mk-app"] + consumed["mk-quant"] < MaxTerms
    /\ ConsumeArg("mk-quant", id, TRUE, children)
    /\ IF ~AllResolve(children) \/ children = <<>>
       THEN Panic /\ UNCHANGED store
       ELSE LET qidx == Len(quantifiers) + 1
                tidx == Len(terms) + 1
            IN
            /\ NewTerm(id, Term(id, QuantTermKind(qidx), gobble_children(children)))
            /\ quantifiers' = Append(quantifiers, Quantifier(<<"Named">>, Some(tidx)))
            /\ Succeed
            /\ UNCHANGED <<discovered_map, matches, instantiations,
                           inst_stack, temp_dependencies, dependencies>>

\* ---------------------------------------------------------------- dependencies
Dependency(from, blamed, dep_type, quant, quant_discovered) ==
    [from |-> from, to |-> None, blamed |-> blamed, dep_type |-> dep_type,
     quant |-> quant, quant_discovered |-> quant_discovered]

\* Z3Parser::add_blank_dependency_if_needed: the dependency it pushes.
BlankDependency(quant, quant_discovered, match_line) ==
    Dependency(match_line, None, "None", quant, quant_discovered)

\* A dependency whose source is the line of the producer's match.
add_dependency_match_line(from_term, dep_type) ==
    LET resp == terms[from_term].resp_inst IN
    IF IsSome(resp)
    THEN LET inst == Unwrap(resp)
             instantiation == instantiations[inst]
         IN Some(<<inst, Dependency(instantiation.match_line_no, Some(from_term),
                                    dep_type, instantiation.quant,
                                    instantiation.quant_discovered)>>)
    ELSE None

\* Z3Parser::add_dependency: Option<(InstIdx, Dependency)>
add_dependency(from_term, dep_type) ==
    LET resp == terms[from_term].resp_inst IN
    IF IsSome(resp)
    THEN LET inst == Unwrap(resp)
             instantiation == instantiations[inst]
         IN Some(<<inst, Dependency(Unwrap(instantiation.line_no), Some(from_term),
                                    dep_type, instantiation.quant,
                                    instantiation.quant_discovered)>>)
    ELSE None

\* EqualityExpl::from_to
from_to(eq) == <<eq.from, eq.to>>

\* ---------------------------------------------------------------- blamed terms
\* A blamed token of a [new-match] line: one id, or a pair "(#a #b)".
Single(id) == <<"Single", id>>
Pair(a, b) == <<"Pair", a, b>>
\* Most blamed tokens / bound terms of a line.
MaxBlamed == 1
BlamedTokens == {Single(a) : a \in TermIds}
BlamedLists == SeqsUpTo(BlamedTokens, MaxBlamed)
IdLists == SeqsUpTo(TermIds, MaxBlamed)

\* The payloads of a [new-match] line after the fingerprint: the quantifier's
\* term, the pattern, the bound terms and the blamed tokens.
MatchPayloads ==
    {[quant |-> q, pattern |-> q, bound |-> <<>>, blamed |-> bl] :
        q \in TermIds, bl \in BlamedLists}

TokenResolves(tok) ==
    IF tok[1] = "Single" THEN Resolves(tok[2])
    ELSE Resolves(tok[2]) /\ Resolves(tok[3])

\* The tokens the loop handles before it panics on an unresolved id (all of
\* them when every id resolves).
RECURSIVE ResolvedPrefix(_)
ResolvedPrefix(toks) ==
    IF toks = <<>> \/ ~TokenResolves(Head(toks)) THEN <<>>
    ELSE <<Head(toks)>> \o ResolvedPrefix(Tail(toks))

\* Literal explanations recorded as dependencies of term provenance.
TokenDepsAsTerm(tok) ==
    IF tok[1] = "Single"
    THEN add_dependency(parse_existing_id(tok[2]), "Term")
    ELSE LET fidx == parse_existing_id(tok[2])
             sidx == parse_existing_id(tok[3])
             Hit(eq) == from_to(eq) = <<fidx, sidx>> /\ eq.kind = "Literal"
             lits == SelectSeq(terms[fidx].equality_expls, Hit)
         IN IF fidx # sidx
            THEN Concat([i \in DOMAIN lits |-> add_dependency(lits[i].eq, "Term")])
            ELSE <<>>

\* z3parser.rs 369-407: the (inst, dep) pairs one blamed token adds.
TokenDeps(tok) ==
    IF tok[1] = "Single"
    THEN add_dependency(parse_existing_id(tok[2]), "Term")
    ELSE LET fidx == parse_existing_id(tok[2])
             sidx == parse_existing_id(tok[3])
             Hit(eq) == from_to(eq) = <<fidx, sidx>> /\ eq.kind = "Literal"
             lits == SelectSeq(terms[fidx].equality_expls, Hit)
         IN IF fidx # sidx
            THEN Concat([i \in DOMAIN lits |-> add_dependency(lits[i].eq, "Equality")])
            ELSE <<>>

\* The blamed_terms entry of one token.
BlamedTermItem(tok) ==
    IF tok[1] = "Single" THEN Single(parse_existing_id(tok[2]))
    ELSE Pair(parse_existing_id(tok[2]), parse_existing_id(tok[3]))

\* The equality_expls entries of one token.
TokenEqualityExpls(tok) ==
    IF tok[1] = "Pair" /\ parse_existing_id(tok[2]) # parse_existing_id(tok[3])
    THEN <<parse_existing_id(tok[2])>> ELSE <<>>

AllTokenDeps(toks) == Concat([i \in DOMAIN toks |-> TokenDeps(toks[i])])
DepsOf(pairs) == [i \in DOMAIN pairs |-> pairs[i][2]]
InstsOf(pairs) == [i \in DOMAIN pairs |-> pairs[i][1]]

Instantiation(match_line, fp, quant, discovered, pattern, bound, blamed, eqs, dep_insts) ==
    [match_line_no |-> match_line, line_no |-> None, fingerprint |-> fp,
     resulting_term |-> None, z3_gen |-> None, cost |-> 1, quant |-> quant,
     quant_discovered |-> discovered, pattern |-> pattern, yields_terms |-> <<>>,
     bound_terms |-> bound, blamed_terms |-> blamed,
     equality_expls |-> eqs, dep_instantiations |-> dep_insts]

\* What temp_dependencies holds under match_line once the blamed tokens toks
\* were handled: the resolved dependencies, or one blank one.
MatchBucket(toks, quant, discovered, match_line) ==
    LET deps == DepsOf(AllTokenDeps(toks)) IN
    IF deps = <<>> THEN <<BlankDependency(quant, discovered, match_line)>> ELSE deps

\* [new-match]
NewMatch(fp, p) ==
    LET qid == p.quant
        pat == p.pattern
        bound == p.bound
        blamed == p.blamed
    IN
    /\ Running
    /\ consumed["new-match"] + consumed["inst-discovered"] < MaxMatches
    /\ Consume("new-match", fp, TRUE)
    /\ UNCHANGED <<terms, term_map, discovered_map, quantifiers, instantiations,
                   inst_stack, dependencies>>
    /\ IF \/ ~Resolves(qid)
          \/ ~IsSome(quant_idx(terms[parse_existing_id(qid)].kind))
          \/ ~Resolves(pat)
          \/ ~AllResolve(bound)
       THEN Panic /\ UNCHANGED <<matches, temp_dependencies>>
       ELSE LET quant == Unwrap(quant_idx(terms[parse_existing_id(qid)].kind))
                match_line == line_no + 1
                done == ResolvedPrefix(blamed)
            IN
            IF done # blamed
            THEN /\ Panic
                 /\ temp_dependencies' =
                        MapInsert(temp_dependencies, match_line,
                                  DepsOf(AllTokenDeps(done)))
                 /\ UNCHANGED matches
            ELSE /\ Succeed
                 /\ temp_dependencies' =
                        MapInsert(temp_dependencies, match_line,
                                  MatchBucket(blamed, quant, FALSE, match_line))
                 /\ matches' =
                        MapInsert(matches, fp,
                            Instantiation(match_line, fp, quant, FALSE,
                                Some(parse_existing_id(pat)),
                                gobble_children(bound),
                                [i \in DOMAIN blamed |-> BlamedTermItem(blamed[i])],
                                Concat([i \in DOMAIN blamed |->
                                            TokenEqualityExpls(blamed[i])]),
                                InstsOf(AllTokenDeps(blamed))))

\* ---------------------------------------------------------------- discovered
MBQIKey == <<"MBQI", 0>>
TheorySolvingKey(ts_id) == <<"TheorySolving", ts_id>>

\* IdxMap::discovered_quant / Z3Parser::discovered_quant: the index returned,
\* and the arena and the map afterwards.
DiscoveredQuantIdx(key) ==
    IF key \in DOMAIN discovered_map THEN discovered_map[key]
    ELSE Len(quantifiers) + 1
\* An arena that gets the fallback quantifier whether the key is new or not.
DiscoveredQuantifiersEager(key, method) ==
    Append(quantifiers, Quantifier(<<"Other", method>>, None))

DiscoveredQuantifiers(key, method) ==
    IF key \in DOMAIN discovered_map THEN quantifiers
    ELSE Append(quantifiers, Quantifier(<<"Other", method>>, None))
DiscoveredMap(key) ==
    IF key \in DOMAIN discovered_map THEN discovered_map
    ELSE MapInsert(discovered_map, key, Len(quantifiers) + 1)

\* The payloads of an [inst-discovered] line: the method, then for
\* theory-solving a term id, the separator and blamed ids, for MBQI bound ids.
DiscoveredPayloads ==
    {[method |-> "theory-solving", ts_id |-> 1, sep_ok |-> TRUE, ids |-> ids] :
        ids \in {<<>>, <<1>>}}
    \cup {[method |-> "theory-solving", ts_id |-> 2, sep_ok |-> TRUE, ids |-> <<>>]}
    \cup {[method |-> "theory-solving", ts_id |-> 1, sep_ok |-> FALSE, ids |-> <<>>]}
    \cup {[method |-> "MBQI", ts_id |-> 0, sep_ok |-> TRUE, ids |-> <<>>]}
    \cup {[method |-> "unknown", ts_id |-> 0, sep_ok |-> TRUE, ids |-> <<>>]}

SingleTokens(ids) == [i \in DOMAIN ids |-> Single(ids[i])]

\* [inst-discovered]
InstDiscovered(fp, p) ==
    /\ Running
    /\ consumed["new-match"] + consumed["inst-discovered"] < MaxMatches
    /\ ConsumeArg("inst-discovered", fp, p.sep_ok /\ p.method # "unknown",
                  <<p.method, p.ts_id>>)
    /\ UNCHANGED <<terms, term_map, instantiations, inst_stack, dependencies>>
    /\ LET match_line == line_no + 1
           key == IF p.method = "MBQI" THEN MBQIKey ELSE TheorySolvingKey(p.ts_id)
           quant == DiscoveredQuantIdx(key)
           toks == SingleTokens(p.ids)
           done == ResolvedPrefix(toks)
       IN
       CASE p.method = "theory-solving" /\ ~p.sep_ok ->
                /\ Fail
                /\ quantifiers' = DiscoveredQuantifiers(key, p.method)
                /\ discovered_map' = DiscoveredMap(key)
                /\ temp_dependencies' = MapInsert(temp_dependencies, match_line, <<>>)
                /\ UNCHANGED matches
         [] p.method = "theory-solving" /\ p.sep_ok /\ done # toks ->
                /\ Panic
                /\ quantifiers' = DiscoveredQuantifiers(key, p.method)
                /\ discovered_map' = DiscoveredMap(key)
                /\ temp_dependencies' =
                       MapInsert(temp_dependencies, match_line,
                                 DepsOf(AllTokenDeps(done)))
                /\ UNCHANGED matches
         [] p.method = "theory-solving" /\ p.sep_ok /\ done = toks ->
                /\ Succeed
                /\ quantifiers' = DiscoveredQuantifiers(key, p.method)
                /\ discovered_map' = DiscoveredMap(key)
                /\ temp_dependencies' =
                       MapInsert(temp_dependencies, match_line,
                                 MatchBucket(toks, quant, TRUE, match_line))
                /\ matches' =
                       MapInsert(matches, fp,
                           Instantiation(match_line, fp, quant, TRUE, None, <<>>,
                               [i \in DOMAIN toks |-> BlamedTermItem(toks[i])],
                               <<>>, InstsOf(AllTokenDeps(toks))))
         [] p.method = "MBQI" /\ ~AllResolve(p.ids) ->
                /\ Panic
                /\ quantifiers' = DiscoveredQuantifiers(key, p.method)
                /\ discovered_map' = DiscoveredMap(key)
                /\ temp_dependencies' = MapInsert(temp_dependencies, match_line, <<>>)
                /\ UNCHANGED matches
         [] p.method = "MBQI" /\ AllResolve(p.ids) ->
                /\ Succeed
                /\ quantifiers' = DiscoveredQuantifiers(key, p.method)
                /\ discovered_map' = DiscoveredMap(key)
                /\ temp_dependencies' =
                       MapInsert(temp_dependencies, match_line,
                                 <<BlankDependency(quant, TRUE, match_line)>>)
                /\ matches' =
                       MapInsert(matches, fp,
                           Instantiation(match_line, fp, quant, TRUE, None,
                               gobble_children(p.ids), <<>>, <<>>, <<>>))
         [] OTHER ->
                /\ Fail
                /\ temp_dependencies' = MapInsert(temp_dependencies, match_line, <<>>)
                /\ UNCHANGED <<quantifiers, discovered_map, matches>>

\* ---------------------------------------------------------------- instances
\* The tokens after the fingerprint of an [instance] line: an optional
\* resulting term id, then nothing, "; <generation>", or something else.
InstanceTails == {"end", "gen", "malformed"}
InstancePayloads ==
    {[term |-> None, tail |-> "end"], [term |-> Some(1), tail |-> "gen"],
     [term |-> None, tail |-> "malformed"]}
\* The generation a line carries.
Z3Gen == 0

\* A record stamped with the 0-based number of its line.
PromoteZeroBased(m, p) ==
    [m EXCEPT !.line_no = Some(line_no),
              !.resulting_term = IF IsSome(p.term)
                                 THEN Some(parse_existing_id(Unwrap(p.term))) ELSE @,
              !.z3_gen = IF p.tail = "gen" THEN Some(Z3Gen) ELSE @]

\* z3parser.rs 557-575: the clone of the match that becomes the record.
Promote(m, p) ==
    [m EXCEPT !.line_no = Some(line_no + 1),
              !.resulting_term = IF IsSome(p.term)
                                 THEN Some(parse_existing_id(Unwrap(p.term))) ELSE @,
              !.z3_gen = IF p.tail = "gen" THEN Some(Z3Gen) ELSE @]

\* A count that records the instance and forgets the cost.
CountInstanceNoCost(qidx, iidx) ==
    [quantifiers EXCEPT ![qidx].instances = Append(@, iidx)]

\* z3parser.rs 581-583: the quantifiers once qidx has counted iidx.
CountInstance(qidx, iidx) ==
    [quantifiers EXCEPT ![qidx].instances = Append(@, iidx),
                        ![qidx].cost = @ + 1]

\* [instance]
Instance(fp, p) ==
    /\ Running
    /\ consumed["instance"] < MaxInsts
    /\ Consume("instance", fp, p.tail # "malformed")
    /\ UNCHANGED <<terms, term_map, discovered_map, matches, temp_dependencies,
                   dependencies>>
    /\ IF fp \notin DOMAIN matches \/ (IsSome(p.term) /\ ~Resolves(Unwrap(p.term)))
       THEN Panic /\ UNCHANGED <<instantiations, inst_stack, quantifiers>>
       ELSE IF p.tail = "malformed"
       THEN Fail /\ UNCHANGED <<instantiations, inst_stack, quantifiers>>
       ELSE LET inst == Promote(matches[fp], p)
                iidx == Len(instantiations) + 1
            IN
            /\ Succeed
            /\ instantiations' = Append(instantiations, inst)
            /\ inst_stack' = Append(inst_stack, iidx)
            /\ quantifiers' = CountInstance(inst.quant, iidx)

\* A pop that takes the oldest entry.
RestFifo(stack) == Tail(stack)

\* Vec::pop of a non-empty stack: the index popped, and the stack left.
Popped(stack) == Last(stack)
Rest(stack) == Front(stack)

\* A pop that took an empty stack for nothing to do.
PopEmptyIgnored == Succeed /\ UNCHANGED <<inst_stack, temp_dependencies, dependencies>>

\* z3parser.rs 588: pop().unwrap() of an empty stack panics; nothing was
\* written.
PopEmpty == Panic /\ UNCHANGED <<inst_stack, temp_dependencies, dependencies>>

\* z3parser.rs 591-594: a provisional dependency of inst, finalized.
Finalize(dep, inst) == [dep EXCEPT !.to = inst.line_no, !.quant = inst.quant]

\* An append that copies the elements and leaves them in the bucket.
DrainedKept(deps) == deps

\* Vec::append moves the elements out: what is left of the bucket.
Drained(deps) == <<>>

\* [end-of-instance]
EndOfInstance ==
    /\ Running
    /\ Consume("end-of-instance", 0, TRUE)
    /\ UNCHANGED <<terms, term_map, discovered_map, quantifiers, matches,
                   instantiations>>
    /\ IF inst_stack = <<>>
       THEN PopEmpty
       ELSE LET iidx == Popped(inst_stack)
                inst == instantiations[iidx]
                deps == temp_dependencies[inst.match_line_no]
            IN
            /\ Succeed
            /\ inst_stack' = Rest(inst_stack)
            /\ dependencies' =
                   dependencies \o [i \in DOMAIN deps |-> Finalize(deps[i], inst)]
            /\ temp_dependencies' =
                   [temp_dependencies EXCEPT ![inst.match_line_no] = Drained(deps)]

\* The record pushed last, whether its block is still open or not.
ResponsibleLatestRecord(stack) == Len(instantiations)

\* The outermost open instantiation instead of the innermost.
ResponsibleOutermost(stack) == Head(stack)

\* z3parser.rs 294: inst_stack.last() of a non-empty stack.
Responsible(stack) == Last(stack)

\* [attach-enode]
AttachEnode(id, number_ok) ==
    /\ Running
    /\ consumed["attach-enode"] < MaxAttachAgain
    /\ Consume("attach-enode", id, number_ok)
    /\ UNCHANGED <<term_map, discovered_map, quantifiers, matches, inst_stack,
                   temp_dependencies, dependencies>>
    /\ IF ~Resolves(id)
       THEN Panic /\ UNCHANGED <<terms, instantiations>>
       ELSE IF ~number_ok
       THEN Fail /\ UNCHANGED <<terms, instantiations>>
       ELSE LET idx == parse_existing_id(id) IN
            /\ Succeed
            /\ IF inst_stack # <<>>
               THEN LET inst == Responsible(inst_stack) IN
                    /\ terms' = [terms EXCEPT ![idx].resp_inst = Some(inst)]
                    /\ instantiations' =
                           [instantiations EXCEPT ![inst].yields_terms = Append(@, idx)]
               ELSE UNCHANGED <<terms, instantiations>>

\* ---------------------------------------------------------------- equalities
\* z3parser.rs 306-341: the variant an [eq-expl] line of this kind becomes.
ExplKind(kind) ==
    CASE kind = "root" -> "Root"
      [] kind = "lit" -> "Literal"
      [] kind = "cg" -> "Congruence"
      [] kind = "th" -> "Theory"
      [] kind = "ax" -> "Axiom"
      [] OTHER -> "Unknown"

\* The tokens after the id of an [eq-expl] line: the kind, for lit the id of
\* the equality, the id of the target (none for root), and whether more
\* tokens follow.
EqExplPayloads ==
    {[kind |-> k, eq |-> 0, args |-> <<>>, to |-> 2, more |-> FALSE] :
        k \in {"root", "cg", "ax", "other"}}
    \cup {[kind |-> "th", eq |-> 0, args |-> <<"arith">>, to |-> 2, more |-> FALSE]}
    \cup {[kind |-> "lit", eq |-> e, args |-> <<>>, to |-> 2, more |-> FALSE] :
            e \in TermIds}
    \cup {[kind |-> "lit", eq |-> 1, args |-> <<>>, to |-> 2, more |-> TRUE]}
\* The same, and lines that differ from one of them in the theory, in the
\* arguments of an unknown kind, or in the target only.
ExplPayloads ==
    EqExplPayloads
    \cup {[kind |-> "th", eq |-> 0, args |-> <<"bv">>, to |-> 2, more |-> FALSE],
          [kind |-> "other", eq |-> 0, args |-> <<"x">>, to |-> 2, more |-> FALSE],
          [kind |-> "ax", eq |-> 0, args |-> <<>>, to |-> 1, more |-> FALSE]}

\* The EqualityExpl of a line; Root leads from the term to itself.
EqualityExpl(idx, p) ==
    [kind |-> ExplKind(p.kind),
     from |-> idx,
     eq |-> IF p.kind = "lit" THEN parse_existing_id(p.eq) ELSE 0,
     args |-> p.args,
     to |-> IF p.kind = "root" THEN idx ELSE parse_existing_id(p.to)]

\* A push that compares the kind and the two ends only.
PushExplByEnds(expls, eq_expl) ==
    IF \E i \in DOMAIN expls :
           /\ expls[i].kind = eq_expl.kind
           /\ expls[i].from = eq_expl.from
           /\ expls[i].to = eq_expl.to
    THEN expls
    ELSE Append(expls, eq_expl)

\* z3parser.rs 347-350: pushed unless the term has it already.
PushExpl(expls, eq_expl) ==
    IF \E i \in DOMAIN expls : expls[i] = eq_expl THEN expls
    ELSE Append(expls, eq_expl)

\* [eq-expl]
EqExpl(id, p) ==
    /\ Running
    /\ consumed["eq-expl"] < MaxEqExpl
    /\ ConsumeArg("eq-expl", id, ~p.more, <<p.kind, p.eq, p.args, p.to>>)
    /\ UNCHANGED <<term_map, discovered_map, quantifiers, matches, instantiations,
                   inst_stack, temp_dependencies, dependencies>>
    /\ IF \/ ~Resolves(id)
          \/ (p.kind = "lit" /\ ~Resolves(p.eq))
          \/ (p.kind # "root" /\ ~Resolves(p.to))
       THEN Panic /\ UNCHANGED terms
       ELSE IF p.more
       THEN Fail /\ UNCHANGED terms
       ELSE LET idx == parse_existing_id(id) IN
            /\ Succeed
            /\ terms' = [terms EXCEPT ![idx].equality_expls =
                                         PushExpl(@, EqualityExpl(idx, p))]

\* ---------------------------------------------------------------- metadata
Meaning(theory, value) == [theory |-> theory, value |-> value]
\* The tokens after the id of an [attach-meaning] line: a theory and a value,
\* or nothing.
MeaningPayloads ==
    {Some(Meaning("arith", "1")), Some(Meaning("arith", "2")),
     Some(Meaning("bv", "1")), None}

\* z3parser.rs 269-273: the terms once the meaning was stored; a meaning
\* already there stays.
StoreMeaning(idx, meaning) ==
    IF IsSome(terms[idx].meaning) THEN terms
    ELSE [terms EXCEPT ![idx].meaning = Some(meaning)]

\* A check that lets any meaning pass.
MeaningAgreesAny(idx, meaning) == TRUE

\* z3parser.rs 270: assert_eq!(old, &meaning) passes.
MeaningAgrees(idx, meaning) ==
    IsSome(terms[idx].meaning) => Unwrap(terms[idx].meaning) = meaning

\* [attach-meaning]
AttachMeaning(id, p) ==
    /\ Running
    /\ consumed["attach-meaning"] + consumed["attach-var-names"] < MaxMeta
    /\ ConsumeArg("attach-meaning", id, IsSome(p), p)
    /\ UNCHANGED <<term_map, discovered_map, quantifiers, matches, instantiations,
                   inst_stack, temp_dependencies, dependencies>>
    /\ IF ~IsSome(p)
       THEN Fail /\ UNCHANGED terms
       ELSE IF ~Resolves(id)
       THEN Panic /\ UNCHANGED terms
       ELSE LET idx == parse_existing_id(id)
                meaning == Unwrap(p)
            IN
            IF ~MeaningAgrees(idx, meaning)
            THEN Panic /\ UNCHANGED terms
            ELSE Succeed /\ terms' = StoreMeaning(idx, meaning)

\* ---------------------------------------------------------------- var names
\* A token of a line is the sequence of its pieces: the characters "(", ")",
\* ";" and "|", and runs of other characters.
ends_with(tok, c) == tok # <<>> /\ Last(tok) = c
strip_prefix(tok, c) == IF tok # <<>> /\ Head(tok) = c THEN Some(Tail(tok)) ELSE None
strip_suffix(tok, c) == IF ends_with(tok, c) THEN Some(Front(tok)) ELSE None
\* str::split: the parts of tok between the occurrences of c.
RECURSIVE split(_, _)
split(tok, c) ==
    IF \A i \in DOMAIN tok : tok[i] # c THEN <<tok>>
    ELSE LET i == CHOOSE k \in DOMAIN tok :
                      tok[k] = c /\ \A j \in 1..(k - 1) : tok[j] # c
         IN <<SubSeq(tok, 1, i - 1)>> \o split(SubSeq(tok, i + 1, Len(tok)), c)

\* Option::get_or_insert
get_or_insert(spaces, form) == IF IsSome(spaces) THEN Unwrap(spaces) ELSE form

\* z3parser.rs 145-146: the tuple of two tokens without its brackets, the
\* tokens left and the form seen first; item is None for a tuple that failed.
GobbleOutcome(item, l, spaces) == [item |-> item, l |-> l, spaces |-> spaces]
StripBrackets(first, second, l, spaces) ==
    IF IsSome(strip_prefix(first, "(")) /\ IsSome(strip_suffix(second, ")"))
    THEN GobbleOutcome(Some(<<Unwrap(strip_prefix(first, "(")),
                              Unwrap(strip_suffix(second, ")"))>>), l, spaces)
    ELSE GobbleOutcome(None, l, spaces)

\* z3parser.rs 121-147: the closure gobble, called with a token left.
gobble(FORMS_EQUAL, l, spaces) ==
    LET first == Head(l)
        l1 == Tail(l)
    IN
    IF ends_with(first, ")")
    THEN LET sp == get_or_insert(spaces, 0)
             parts == split(first, ";")
         IN IF FORMS_EQUAL /\ sp # 0 THEN GobbleOutcome(None, l1, Some(sp))
            ELSE IF Len(parts) < 2 THEN GobbleOutcome(None, l1, Some(sp))
            ELSE StripBrackets(parts[1], parts[2], l1, Some(sp))
    ELSE IF l1 = <<>> THEN GobbleOutcome(None, l1, spaces)
    ELSE LET middle == Head(l1)
             l2 == Tail(l1)
         IN IF middle # <<";">>
            THEN LET sp == get_or_insert(spaces, 1) IN
                 IF FORMS_EQUAL /\ sp # 1 THEN GobbleOutcome(None, l2, Some(sp))
                 ELSE StripBrackets(first, middle, l2, Some(sp))
            ELSE LET sp == get_or_insert(spaces, 2) IN
                 IF FORMS_EQUAL /\ sp # 2 THEN GobbleOutcome(None, l2, Some(sp))
                 ELSE IF l2 = <<>> THEN GobbleOutcome(None, l2, Some(sp))
                 ELSE StripBrackets(first, Head(l2), Tail(l2), Some(sp))

\* z3parser.rs 148-150: the items the iterator yields until no token is left.
RECURSIVE GobbledItems(_, _, _)
GobbledItems(FORMS_EQUAL, l, spaces) ==
    IF l = <<>> THEN <<>>
    ELSE LET r == gobble(FORMS_EQUAL, l, spaces) IN
         <<r.item>> \o GobbledItems(FORMS_EQUAL, r.l, r.spaces)

\* Tuples taken in whatever form each of them has.
gobble_tuples_any_form(FORMS_EQUAL, l) == GobbledItems(FALSE, l, None)

\* Z3Parser::gobble_tuples
gobble_tuples(FORMS_EQUAL, l) == GobbledItems(FORMS_EQUAL, l, None)

\* z3parser.rs 104-108
strip_bars(t) ==
    LET first == strip_prefix(t[1], "|")
        second == strip_prefix(t[2], "|")
    IN IF /\ IsSome(first) /\ IsSome(strip_suffix(Unwrap(first), "|"))
          /\ IsSome(second) /\ IsSome(strip_suffix(Unwrap(second), "|"))
       THEN Some(<<Unwrap(strip_suffix(Unwrap(first), "|")),
                   Unwrap(strip_suffix(Unwrap(second), "|"))>>)
       ELSE None

\* Iterator::collect::<Option<Vec<_>>>
collect(items) ==
    IF \E i \in DOMAIN items : items[i] = None THEN None
    ELSE Some([i \in DOMAIN items |-> Unwrap(items[i])])

\* Z3Parser::gobble_var_names_list
gobble_var_names_list(l) ==
    LET t == gobble_tuples(TRUE, l) IN
    IF t = <<>> \/ t[1] = None THEN None
    ELSE IF Unwrap(t[1])[1] = <<>>
    THEN LET types == collect([i \in DOMAIN t |->
                                  IF t[i] # None /\ Unwrap(t[i])[1] = <<>>
                                  THEN Some(Unwrap(t[i])[2]) ELSE None])
         IN IF IsSome(types) THEN Some(<<"TypeOnly", Unwrap(types)>>) ELSE None
    ELSE LET names_and_types ==
                 collect([i \in DOMAIN t |->
                             IF t[i] = None THEN None ELSE strip_bars(Unwrap(t[i]))])
         IN IF IsSome(names_and_types)
            THEN Some(<<"NameAndType", Unwrap(names_and_types)>>) ELSE None

\* Most tuples of an [attach-var-names] line.
MaxTuples == 2
\* A tuple as z3 writes it: its form "(A;B)", "(A B)" or "(A ; B)", and what
\* it holds: a type only, a name and a type in bars, or the two without bars.
TupleForms == {0, 1, 2}
TupleKinds == {"type", "named", "bare"}
TupleName(kind) ==
    CASE kind = "type" -> <<>>
      [] kind = "named" -> <<"|", "x", "|">>
      [] OTHER -> <<"x">>
TupleType(kind) == IF kind = "named" THEN <<"|", "Int", "|">> ELSE <<"Int">>
\* The tokens of a tuple: the line is split at every space.
TupleTokens(tuple) ==
    CASE tuple.form = 0 ->
            <<<<"(">> \o TupleName(tuple.kind) \o <<";">> \o TupleType(tuple.kind)
                \o <<")">>>>
      [] tuple.form = 1 ->
            <<<<"(">> \o TupleName(tuple.kind), TupleType(tuple.kind) \o <<")">>>>
      [] OTHER ->
            <<<<"(">> \o TupleName(tuple.kind), <<";">>,
              TupleType(tuple.kind) \o <<")">>>>

\* The tuples after the id of an [attach-var-names] line.
VarNamesPayloads ==
    SeqsUpTo({[form |-> f, kind |-> k] : f \in TupleForms, k \in TupleKinds},
             MaxTuples)
\* The tokens of the line.
VarNamesTokens(p) == Concat([i \in DOMAIN p |-> TupleTokens(p[i])])

\* A check that takes names which repeat the ones attached.
VarsVacantOrSame(qidx, var_names) ==
    quantifiers[qidx].vars \in {None, Some(var_names)}

\* z3parser.rs 282: assert!(vars.is_none()) passes.
VarsVacant(qidx, var_names) == quantifiers[qidx].vars = None

\* [attach-var-names]
AttachVarNames(id, p) ==
    LET parsed == gobble_var_names_list(VarNamesTokens(p)) IN
    /\ Running
    /\ consumed["attach-meaning"] + consumed["attach-var-names"] < MaxMeta
    /\ ConsumeArg("attach-var-names", id, IsSome(parsed), p)
    /\ UNCHANGED <<terms, term_map, discovered_map, matches, instantiations,
                   inst_stack, temp_dependencies, dependencies>>
    /\ IF ~IsSome(parsed)
       THEN Fail /\ UNCHANGED quantifiers
       ELSE IF ~Resolves(id) \/ ~IsSome(quant_idx(terms[parse_existing_id(id)].kind))
       THEN Panic /\ UNCHANGED quantifiers
       ELSE LET qidx == Unwrap(quant_idx(terms[parse_existing_id(id)].kind))
                var_names == Unwrap(parsed)
            IN
            IF ~VarsVacant(qidx, var_names)
            THEN Panic /\ UNCHANGED quantifiers
            ELSE /\ Succeed
                 /\ quantifiers' = [quantifiers EXCEPT ![qidx].vars = Some(var_names)]

\* ---------------------------------------------------------------- end of stream
\* An end of stream that accepts whatever is open.
AtEndOfStreamSilent(stack) == "done"

\* The outcome of a log that ends here: an instantiation still open is an
\* error.
AtEndOfStream(stack) == IF stack = <<>> THEN "done" ELSE "error"

\* The log ends: no line is left.
EndOfStream ==
    /\ Running
    /\ line' = [tag |-> "eof", key |-> 0, wf |-> TRUE, no |-> line_no, arg |-> <<>>]
    /\ status' = AtEndOfStream(inst_stack)
    /\ UNCHANGED <<store, line_no, consumed, gui>>

\* ---------------------------------------------------------------- graph
\* results.rs 11, 16-17: the empty graph and the two empty maps.  A node is
\* its position in nodes, and its weight the line number there.
EmptyGraph ==
    [nodes |-> <<>>, edges |-> <<>>, node_of_line_nr |-> EmptyMap,
     line_nr_of_node |-> EmptyMap]

\* results.rs 12-14
is_theory_inst(d) == d.quant_discovered

\* results.rs 15: no node has this line number as its weight.
fresh_line_nr(g, line_nr) == \A n \in DOMAIN g.nodes : g.nodes[n] # line_nr

\* results.rs 21-25, 28-32: the node of a line number, added if it is fresh.
AddFreshNode(g, line_nr) ==
    IF fresh_line_nr(g, line_nr)
    THEN LET node == Len(g.nodes) + 1 IN
         [g EXCEPT !.nodes = Append(@, line_nr),
                   !.node_of_line_nr = MapInsert(@, line_nr, node),
                   !.line_nr_of_node = MapInsert(@, node, line_nr)]
    ELSE g

\* results.rs 33-35
AddEdge(g, from, to) ==
    IF from \in DOMAIN g.node_of_line_nr /\ to \in DOMAIN g.node_of_line_nr
    THEN [g EXCEPT !.edges = Append(@, <<g.node_of_line_nr[from],
                                         g.node_of_line_nr[to]>>)]
    ELSE g

\* results.rs 19-37: the body of the loop for one dependency.
GraphOfDep(g, dep) ==
    IF is_theory_inst(dep) \/ ~IsSome(dep.to) THEN g
    ELSE LET to == Unwrap(dep.to)
             g1 == AddFreshNode(g, to)
         IN IF dep.from > 0
            THEN AddEdge(AddFreshNode(g1, dep.from), dep.from, to)
            ELSE g1

RECURSIVE GraphOfDeps(_, _)
GraphOfDeps(g, deps) ==
    IF deps = <<>> THEN g
    ELSE GraphOfDeps(GraphOfDep(g, Head(deps)), Tail(deps))

\* Z3Parser::get_instantiation_graph
get_instantiation_graph == GraphOfDeps(EmptyGraph, dependencies)

\* ---------------------------------------------------------------- result
\* What the caller of the parse gets: the parser, unless a handler panicked
\* (the panic unwinds through the caller and no value is returned).
Returned ==
    IF status = "panic" THEN None
    ELSE Some(<<terms, quantifiers, instantiations, dependencies>>)

\* ================================================================ GUI
\* The component SVGResult of the GUI (results/svg_result.rs): the messages
\* its update handles.  The graph type InstGraph and the filters are used by
\* the component; they are modelled by what they are specified to do.

\* svg_result.rs 28-29
EDGE_LIMIT == 500
DEFAULT_NODE_COUNT == 125

\* Most nodes of a graph that is enumerated edge by edge, and the nodes a
\* filter may name.
MaxNodes == 3
FilterNodes == 1..MaxNodes

\* A full graph: its nodes are 1..node_count, its edges pairs of nodes.
NodesOf(g) == 1..g.node_count
\* An instantiation depends on earlier ones only: edges lead to later nodes.
ForwardPairs(n) == {e \in (1..n) \X (1..n) : e[1] < e[2]}
\* n nodes in a row, each with an edge to the next.
Chain(n) == [node_count |-> n, edges |-> {<<i, i + 1>> : i \in 1..(n - 1)}]
\* Every such graph on MaxNodes nodes, and a chain one node longer.
SmallGraphs ==
    {[node_count |-> MaxNodes, edges |-> es] : es \in SUBSET ForwardPairs(MaxNodes)}
    \cup {Chain(MaxNodes + 1)}
\* a sources, each with an edge to each of b targets.
Bipartite(a, b) == [node_count |-> a + b, edges |-> (1..a) \X ((a + 1)..(a + b))]
\* Graphs around the two thresholds: many edges on few nodes, many nodes
\* with few edges, and many of both.
LargeGraphs ==
    {Bipartite(5, EDGE_LIMIT \div 5 + 1),
     Bipartite(1, DEFAULT_NODE_COUNT),
     Bipartite(4, DEFAULT_NODE_COUNT + 1)}

Successors(g, S) == {e[2] : e \in {x \in g.edges : x[1] \in S}}
Predecessors(g, S) == {e[1] : e \in {x \in g.edges : x[2] \in S}}

\* S and what is reachable from it forwards / backwards.
RECURSIVE WithDescendants(_, _)
WithDescendants(g, S) ==
    LET next == S \cup Successors(g, S) IN
    IF next = S THEN S ELSE WithDescendants(g, next)
RECURSIVE WithAncestors(_, _)
WithAncestors(g, S) ==
    LET next == S \cup Predecessors(g, S) IN
    IF next = S THEN S ELSE WithAncestors(g, next)

\* The visible graph: the visible nodes, and edges <<from, to, edge_type>>.
VisibleNodes(ig) == {n \in NodesOf(ig.orig_graph) : ig.visible[n]}
AllVisible(g) == [n \in NodesOf(g) |-> TRUE]
FullVisibleGraph(g) ==
    [nodes |-> NodesOf(g), edges |-> {<<e[1], e[2], "Direct">> : e \in g.edges}]

\* InstGraph::from: the full graph, everything visible.
InstGraphFrom(g) ==
    [orig_graph |-> g, visible |-> AllVisible(g), visible_graph |-> FullVisibleGraph(g)]

\* Filter::apply: the mask after the filter.
SetVisible(ig, S, b) ==
    [ig EXCEPT !.visible = [n \in NodesOf(ig.orig_graph) |-> IF n \in S THEN b ELSE @[n]]]
Hide(ig, node) == SetVisible(ig, WithDescendants(ig.orig_graph, {node}), FALSE)
ShowNeighbours(ig, node, direction) ==
    SetVisible(ig,
               IF direction = "Outgoing" THEN Successors(ig.orig_graph, {node})
               ELSE Predecessors(ig.orig_graph, {node}),
               TRUE)
\* A source tree that keeps what was visible before.
ShowSourceTreeKeeping(ig, node) ==
    SetVisible(ig, WithAncestors(ig.orig_graph, {node}), TRUE)
ShowSourceTree(ig, node) ==
    [ig EXCEPT !.visible = [n \in NodesOf(ig.orig_graph) |->
                                n \in WithAncestors(ig.orig_graph, {node})]]
Filters ==
    {[kind |-> k, node |-> n, direction |-> "Outgoing"] :
        k \in {"Hide", "ShowNeighbours", "ShowSourceTree"}, n \in FilterNodes}
    \cup {[kind |-> "ShowNeighbours", node |-> n, direction |-> "Incoming"] :
            n \in FilterNodes}
apply(filter, ig) ==
    CASE filter.kind = "Hide" -> Hide(ig, filter.node)
      [] filter.kind = "ShowNeighbours" ->
            ShowNeighbours(ig, filter.node, filter.direction)
      [] OTHER -> ShowSourceTree(ig, filter.node)

\* A reset that shows again only what has no hidden ancestor left.
resetRoots(ig) ==
    [ig EXCEPT !.visible =
        [n \in NodesOf(ig.orig_graph) |->
            @[n] \/ Predecessors(ig.orig_graph, {n}) = {}]]
\* InstGraph::reset
reset(ig) == [ig EXCEPT !.visible = AllVisible(ig.orig_graph)]

\* The hidden nodes reached from S over hidden nodes only, S included.
RECURSIVE HiddenChain(_, _)
HiddenChain(ig, S) ==
    LET step == {n \in Successors(ig.orig_graph, S) : ~ig.visible[n]}
        next == S \cup step
    IN IF next = S THEN S ELSE HiddenChain(ig, next)
\* The hidden nodes a visible node u leads to over hidden nodes only.
HiddenCarriers(ig, u) ==
    LET first == {n \in Successors(ig.orig_graph, {u}) : ~ig.visible[n]} IN
    IF first = {} THEN {} ELSE HiddenChain(ig, first)
\* Edges only to the visible nodes one hidden node away.
IndirectEdgesOneHop(ig) ==
    UNION {{<<u, v, "Indirect">> :
                v \in {n \in Successors(ig.orig_graph,
                            {h \in Successors(ig.orig_graph, {u}) : ~ig.visible[h]}) :
                        ig.visible[n]}} :
           u \in VisibleNodes(ig)}
IndirectEdges(ig) ==
    UNION {{<<u, v, "Indirect">> :
                v \in {n \in Successors(ig.orig_graph, HiddenCarriers(ig, u)) :
                        ig.visible[n]}} :
           u \in VisibleNodes(ig)}
DirectEdges(ig) ==
    {<<e[1], e[2], "Direct">> :
        e \in {x \in ig.orig_graph.edges : ig.visible[x[1]] /\ ig.visible[x[2]]}}
Reduced(ig) ==
    [nodes |-> VisibleNodes(ig), edges |-> DirectEdges(ig) \cup IndirectEdges(ig)]

\* A reduction that reports a decrease relative to the full graph.
retain_against_full(ig) ==
    LET new == Reduced(ig)
        old == FullVisibleGraph(ig.orig_graph)
    IN [inst_graph |-> [ig EXCEPT !.visible_graph = new],
        node_count |-> Cardinality(new.nodes),
        edge_count |-> Cardinality(new.edges),
        node_count_decreased |-> Cardinality(new.nodes) < Cardinality(old.nodes),
        edge_count_decreased |-> Cardinality(new.edges) < Cardinality(old.edges)]

\* InstGraph::retain_visible_nodes_and_reconnect: the graph with its new
\* visible graph, and the four values returned.
retain_visible_nodes_and_reconnect(ig) ==
    LET new == Reduced(ig)
        old == ig.visible_graph
    IN [inst_graph |-> [ig EXCEPT !.visible_graph = new],
        node_count |-> Cardinality(new.nodes),
        edge_count |-> Cardinality(new.edges),
        node_count_decreased |-> Cardinality(new.nodes) < Cardinality(old.nodes),
        edge_count_decreased |-> Cardinality(new.edges) < Cardinality(old.edges)]

\* Most renders in flight at a time.
MaxRenders == 2

\* AttrValue::default: the empty text.
AttrValueDefault == <<>>
\* svg_result.rs 164-203: the graph description, which names every visible
\* node and every edge with its class.
dot_output(ig) == <<"digraph", ig.visible_graph.nodes, ig.visible_graph.edges>>
\* svg_result.rs 209-214: the text of the element graphviz renders.
render_svg_element(dot) == <<"svg", dot>>

\* SVGResult::create: the fields of the component the messages read or write.
create(g) ==
    [inst_graph |-> InstGraphFrom(g),
     svg_text |-> AttrValueDefault,
     graph_dim |-> [node_count |-> 0, edge_count |-> 0],
     async_graph_and_filter_chain |-> FALSE]

\* A message handled, with what the reduction returned to its handler.
NoReduction ==
    [node_count |-> 0, edge_count |-> 0,
     node_count_decreased |-> FALSE, edge_count_decreased |-> FALSE]
Handled(kind, filter, permission, ret) ==
    [kind |-> kind, filter |-> filter, permission |-> permission, ret |-> ret]
NoFilter == [kind |-> "none", node |-> 0, direction |-> "Outgoing"]
\* A message a handler sends: to the component itself or to a linked one.
Send(kind, flag) == [kind |-> kind, flag |-> flag]
Nothing == Send("none", FALSE)
\* A render in flight: the message its task sends when it is done.
Render(svg_text, node_count_decreased) ==
    [svg_text |-> svg_text, node_count_decreased |-> node_count_decreased]
\* A finished render handled, and the message its handler sent.
Completion(render, out) == [render |-> render, sent |-> out]
NoCompletion == Completion(Render(AttrValueDefault, FALSE), Nothing)
NoMsgs == [msg |-> Handled("create", NoFilter, FALSE, NoReduction),
           prev |-> "create", prev2 |-> "create",
           sent |-> Nothing, renders |-> <<>>, done |-> NoCompletion]

\* The name of a message: its kind, or the kind of the filter it applies.
Name(m) == IF m.kind = "ApplyFilter" THEN m.filter.kind ELSE m.kind

\* The request is handled: it becomes the last one, sent is what its
\* handler sends, and renders are the renders in flight afterwards.
HandleSpawning(m, out, renders) ==
    /\ IsSome(svg_result)
    /\ msgs' = [msg |-> m, prev |-> Name(msgs.msg), prev2 |-> msgs.prev, sent |-> out,
                renders |-> renders, done |-> msgs.done]
    /\ UNCHANGED parser
Handle(m, out) == HandleSpawning(m, out, msgs.renders)
\* No message the component sent to itself is waiting.
Idle == msgs.sent.kind \notin {"GetUserPermission", "RenderGraph"}
\* No render is in flight.
Rendered == msgs.renders = <<>>

\* Msg::ApplyFilter
ApplyFilter(filter, has_path) ==
    /\ Idle
    /\ Handle(Handled("ApplyFilter", filter, FALSE, NoReduction),
              IF has_path THEN Send("SelectNodes", FALSE) ELSE Nothing)
    /\ svg_result' =
         Some([Unwrap(svg_result) EXCEPT !.inst_graph = apply(filter, @)])

\* Msg::ResetGraph
ResetGraph ==
    /\ Idle
    /\ Handle(Handled("ResetGraph", NoFilter, FALSE, NoReduction), Nothing)
    /\ svg_result' = Some([Unwrap(svg_result) EXCEPT !.inst_graph = reset(@)])

\* svg_result.rs 150
safe_to_render(r) ==
    \/ r.edge_count <= EDGE_LIMIT
    \/ r.node_count <= DEFAULT_NODE_COUNT
    \/ r.edge_count_decreased
    \/ r.node_count_decreased

\* Msg::RenderGraph
RenderGraph(permission) ==
    LET r == retain_visible_nodes_and_reconnect(Unwrap(svg_result).inst_graph)
        ret == [node_count |-> r.node_count, edge_count |-> r.edge_count,
                node_count_decreased |-> r.node_count_decreased,
                edge_count_decreased |-> r.edge_count_decreased]
        dim == [node_count |-> r.node_count, edge_count |-> r.edge_count]
    IN
    /\ Idle \/ msgs.sent = Send("RenderGraph", permission)
    /\ (safe_to_render(r) \/ permission) => Len(msgs.renders) < MaxRenders
    /\ IF safe_to_render(r) \/ permission
       THEN /\ HandleSpawning(
                   Handled("RenderGraph", NoFilter, permission, ret),
                   Send("UpdateSvgText", r.node_count_decreased),
                   Append(msgs.renders,
                          Render(render_svg_element(dot_output(r.inst_graph)),
                                 r.node_count_decreased)))
            /\ svg_result' =
                 Some([Unwrap(svg_result) EXCEPT
                          !.inst_graph = r.inst_graph,
                          !.graph_dim = dim,
                          !.async_graph_and_filter_chain = FALSE])
       ELSE /\ Handle(Handled("RenderGraph", NoFilter, permission, ret),
                      Send("GetUserPermission", FALSE))
            /\ svg_result' =
                 Some([Unwrap(svg_result) EXCEPT
                          !.inst_graph = r.inst_graph, !.graph_dim = dim])

\* What the user answers to the two questions of the dialog.
Answers == {"render", "apply", "previous", "error"}

\* Msg::GetUserPermission
GetUserPermission(answer) ==
    /\ msgs.sent.kind = "GetUserPermission"
    /\ Handle(Handled("GetUserPermission", NoFilter, FALSE, NoReduction)
                  @@ [answer |-> answer],
              CASE answer = "render" -> Send("RenderGraph", TRUE)
                [] answer = "previous" -> Send("SetToPrevious", FALSE)
                [] OTHER -> Nothing)
    /\ svg_result' =
         IF answer = "apply"
         THEN Some([Unwrap(svg_result) EXCEPT !.async_graph_and_filter_chain = TRUE])
         ELSE svg_result

\* The renders in flight without the i-th.
Without(renders, i) ==
    SubSeq(renders, 1, i - 1) \o SubSeq(renders, i + 1, Len(renders))

\* Msg::UpdateSvgText: the i-th render in flight is done and its message is
\* handled.
UpdateSvgText(i) ==
    LET render == msgs.renders[i]
        changed == render.svg_text # Unwrap(svg_result).svg_text
    IN
    /\ IsSome(svg_result)
    /\ Idle
    /\ i \in DOMAIN msgs.renders
    /\ msgs' = [msgs EXCEPT
                   !.renders = Without(@, i),
                   !.done = Completion(render,
                                IF changed /\ render.node_count_decreased
                                THEN Send("DeselectAll", FALSE) ELSE Nothing)]
    /\ svg_result' =
         IF changed
         THEN Some([Unwrap(svg_result) EXCEPT !.svg_text = render.svg_text])
         ELSE svg_result
    /\ UNCHANGED parser

\* ------------------------------------------------------------ colour map
\* Most quantifiers of a log whose instantiations are coloured.
MaxQuants == 40

\* primal::Primes::all yields the primes in ascending order.
IsPrime(p) == p > 1 /\ \A d \in 2..(p - 1) : p % d # 0

\* The iterator from p on, skip primes still to be skipped: the first prime
\* left that does not divide n.
RECURSIVE FindPrime(_, _, _)
FindPrime(n, p, skip) ==
    IF ~IsPrime(p) THEN FindPrime(n, p + 1, skip)
    ELSE IF skip > 0 THEN FindPrime(n, p + 1, skip - 1)
    ELSE IF n % p # 0 THEN p
    ELSE FindPrime(n, p + 1, skip)

\* The first prime after the skipped ones, whether it divides n or not.
find_coprime_first(n) == IF n = 0 THEN 1 ELSE FindPrime(1, 2, 5)

\* QuantIdxToColourMap::find_coprime
find_coprime(n) == IF n = 0 THEN 1 ELSE FindPrime(n, 2, 5)

\* QuantIdxToColourMap::from
QuantIdxToColourMapFrom(total_nr_of_quants) ==
    [total_nr_of_quants |-> total_nr_of_quants,
     coprime |-> find_coprime(total_nr_of_quants),
     shift |-> 0]

\* idx_perm as f64 / total_nr_of_quants as f64: the quotient, kept as its
\* numerator and denominator.
Quotient(a, b) == <<a, b>>

\* QuantIdxToColourMap::get; idx is the 0-based index of the quantifier.
get(self, idx, sat) ==
    LET idx_perm == (idx * self.coprime + self.shift) % self.total_nr_of_quants
    IN [hue |-> Quotient(idx_perm, self.total_nr_of_quants),
        sat |-> sat,
        val |-> "0.95"]

\* SVGResult::create for a log of total_nr_of_quants quantifiers: the colour
\* map, and the fill colours the graph description has so far.
create_colours(total_nr_of_quants) ==
    [colour_map |-> QuantIdxToColourMapFrom(total_nr_of_quants),
     fillcolor |-> <<>>]

\* svg_result.rs 196: the fill colour of a node of the next quantifier, none
\* of whose children and parents are filtered out.
FillColour ==
    LET r == Unwrap(svg_result)
        idx == Len(r.fillcolor)
    IN
    /\ IsSome(svg_result)
    /\ idx < r.colour_map.total_nr_of_quants
    /\ svg_result' =
         Some([r EXCEPT !.fillcolor = Append(@, get(r.colour_map, idx, "0.7"))])
    /\ UNCHANGED <<parser, msgs>>

\* ---------------------------------------------------------------- start
\* Z3Parser::default
default ==
    /\ terms = <<>>
    /\ term_map = EmptyMap
    /\ discovered_map = EmptyMap
    /\ quantifiers = <<>>
    /\ matches = EmptyMap
    /\ instantiations = <<>>
    /\ inst_stack = <<>>
    /\ temp_dependencies = EmptyMap
    /\ dependencies = <<>>
    /\ line_no = 0
    /\ status = "ok"
    /\ consumed = [t \in Tags |-> 0]
    /\ line = [tag |-> "start", key |-> 0, wf |-> TRUE, no |-> 0, arg |-> <<>>]

\* A parse starts; no component exists yet.
Init == default /\ svg_result = None /\ msgs = NoMsgs

\* The component is created for a small graph / for a graph around the
\* thresholds of the gate.
InitFilters ==
    default /\ msgs = NoMsgs /\ \E g \in SmallGraphs : svg_result = Some(create(g))
InitGate ==
    default /\ msgs = NoMsgs /\ \E g \in LargeGraphs : svg_result = Some(create(g))
\* The component is created for a log of up to MaxQuants quantifiers.
InitColours ==
    default /\ msgs = NoMsgs
        /\ \E n \in 0..MaxQuants : svg_result = Some(create_colours(n))
\* The component is created for a chain of nodes.
InitRender == default /\ msgs = NoMsgs /\ svg_result = Some(create(Chain(MaxNodes)))

\* ================================================================ claims
\* The step handles a line of this tag.
Handles(tag) == line'.tag = tag /\ line'.no = line_no

\* C1: an end-of-instance line that arrives while the instantiation stack is
\* empty ends the parse (stack underflow): the terms, quantifiers,
\* instantiations and permanent dependencies stay as they were before the
\* line, and no line is handled after a line that did not succeed.
C1_StepOk ==
    /\ status = "ok"
    /\ (Handles("end-of-instance") /\ inst_stack = <<>>) =>
           /\ status' # "ok"
           /\ terms' = terms
           /\ quantifiers' = quantifiers
           /\ instantiations' = instantiations
           /\ dependencies' = dependencies
C1_Underflow == [][C1_StepOk]_vars

\* C1 witness: an underflow after a log prefix that opened and closed a block.
C1_Witness ==
    /\ line.tag = "end-of-instance"
    /\ status # "ok"
    /\ inst_stack = <<>>
    /\ dependencies # <<>>
    /\ instantiations # <<>>

\* The set of the elements of a sequence.
Range(s) == {s[i] : i \in DOMAIN s}

\* The open instantiation that was opened last: the one on the stack whose
\* instance line is the latest.
C2_LatestOpen ==
    CHOOSE i \in Range(inst_stack) :
        \A j \in Range(inst_stack) :
            Unwrap(instantiations[j].line_no) <= Unwrap(instantiations[i].line_no)

C2_Depth ==
    status = "ok" =>
        Len(inst_stack) = consumed["instance"] - consumed["end-of-instance"]

C2_Step ==
    /\ (Handles("instance") /\ status' = "ok") =>
           /\ Len(instantiations') = Len(instantiations) + 1
           /\ inst_stack' = Append(inst_stack, Len(instantiations'))
    /\ (Handles("end-of-instance") /\ inst_stack # <<>>) =>
           /\ status' = "ok"
           /\ Len(inst_stack') = Len(inst_stack) - 1
           /\ \A k \in DOMAIN inst_stack' : inst_stack'[k] = inst_stack[k]
           /\ C2_LatestOpen \notin Range(inst_stack')
           /\ Len(dependencies') >= Len(dependencies)
           /\ \A k \in DOMAIN dependencies' :
                  k > Len(dependencies) =>
                      dependencies'[k].to = instantiations[C2_LatestOpen].line_no

\* C2: the instantiation stack is LIFO.  An instance line pushes the record it
\* creates; an end-of-instance line pops the open instantiation opened last,
\* leaves the others in place, and finalizes dependencies for the popped one;
\* the depth is the number of instance lines minus that of end-of-instance
\* lines.
C2_Lifo == []C2_Depth /\ [][C2_Step]_vars

\* C2 witness: two blocks were open and the inner one was closed.
C2_Witness ==
    /\ line.tag = "end-of-instance"
    /\ status = "ok"
    /\ inst_stack = <<1>>
    /\ Len(instantiations) = 2
    /\ \E k \in DOMAIN dependencies : dependencies[k].to = instantiations[2].line_no

C3_LineSet ==
    \A i \in DOMAIN instantiations :
        /\ IsSome(instantiations[i].line_no)
        /\ Unwrap(instantiations[i].line_no) \in 1..line_no

C3_Balanced ==
    (status = "ok" /\ consumed["instance"] = consumed["end-of-instance"]) =>
        inst_stack = <<>>

C3_Step ==
    /\ (Handles("instance") /\ status' = "ok") =>
           Last(instantiations').line_no = Some(line'.no + 1)
    /\ \A i \in DOMAIN instantiations :
           instantiations'[i].line_no = instantiations[i].line_no

\* C3: every record of the instantiation arena has its line number set, to
\* the 1-based number of its instance line, and keeps it; and after a log in
\* which every instance line has its end-of-instance line the instantiation
\* stack is empty.
C3_LineNumbers == [](C3_LineSet /\ C3_Balanced) /\ [][C3_Step]_vars

\* C3 witness: a log of two blocks, each opened and closed.
C3_Witness ==
    /\ status = "ok"
    /\ line.tag = "end-of-instance"
    /\ consumed["instance"] = 2
    /\ consumed["end-of-instance"] = 2
    /\ Len(instantiations) = 2
    /\ inst_stack = <<>>

\* The match of fingerprint fp was already promoted to an instantiation whose
\* block was opened and closed, and fp was not matched again since.
C4_Used(fp) ==
    /\ fp \in DOMAIN matches
    /\ \E i \in DOMAIN instantiations :
           /\ instantiations[i].match_line_no = matches[fp].match_line_no
           /\ i \notin Range(inst_stack)

C4_Step ==
    (Handles("instance") /\ C4_Used(line'.key)) =>
        /\ status' # "ok"
        /\ instantiations' = instantiations

\* C4: an instance line whose fingerprint belongs to an instantiation whose
\* block was already opened and closed, with no new-match or inst-discovered
\* line for that fingerprint since, is a parser error and creates no
\* Instantiation record.
C4_UsedFingerprintFails == [][C4_Step]_vars

\* An instantiation of fingerprint fp exists whose block was closed.
C5_ClosedOwner(fp) ==
    \E i \in DOMAIN instantiations :
        instantiations[i].fingerprint = fp /\ i \notin Range(inst_stack)

\* The pending match of fp is one no instantiation was promoted from.
C5_FreshMatch(fp) ==
    /\ fp \in DOMAIN matches
    /\ \A i \in DOMAIN instantiations :
           instantiations[i].match_line_no # matches[fp].match_line_no

C5_Step ==
    LET fp == line'.key
        n == Len(instantiations)
    IN
    /\ ((Handles("new-match") \/ Handles("inst-discovered"))
            /\ status' = "ok" /\ C5_ClosedOwner(fp)) =>
           /\ matches'[fp].match_line_no = line_no + 1
           /\ matches'[fp].line_no = None
           /\ matches'[fp].fingerprint = fp
           /\ matches'[fp].yields_terms = <<>>
           /\ line_no + 1 \in DOMAIN temp_dependencies'
           /\ temp_dependencies'[line_no + 1] # <<>>
           /\ instantiations' = instantiations
           /\ dependencies' = dependencies
    /\ (Handles("instance") /\ status' = "ok"
            /\ C5_ClosedOwner(fp) /\ C5_FreshMatch(fp)) =>
           /\ Len(instantiations') = n + 1
           /\ SubSeq(instantiations', 1, n) = instantiations
           /\ inst_stack' = Append(inst_stack, n + 1)
           /\ instantiations'[n + 1].match_line_no = matches[fp].match_line_no
           /\ instantiations'[n + 1].bound_terms = matches[fp].bound_terms
           /\ instantiations'[n + 1].blamed_terms = matches[fp].blamed_terms
           /\ instantiations'[n + 1].dep_instantiations = matches[fp].dep_instantiations
           /\ instantiations'[n + 1].yields_terms = <<>>
           /\ dependencies' = dependencies
           /\ temp_dependencies' = temp_dependencies
    /\ Len(dependencies') >= Len(dependencies)
    /\ SubSeq(dependencies', 1, Len(dependencies)) = dependencies

\* C5: when a new-match or inst-discovered line uses a fingerprint again after
\* the instantiation that owned it was closed, it records a fresh pending
\* match with its own match line and dependency bucket, and the following
\* instance line creates a new record with its own index, match line, bound
\* and blamed terms and dependencies; the earlier records and the
\* dependencies already finalized stay as they were.
C5_ReusedFingerprint == [][C5_Step]_vars

\* C5 witness: two records of one fingerprint, from two matches with different
\* blamed terms, the first closed before the second was opened.
C5_Witness ==
    /\ line.tag = "instance"
    /\ status = "ok"
    /\ Len(instantiations) = 2
    /\ inst_stack = <<2>>
    /\ instantiations[1].fingerprint = instantiations[2].fingerprint
    /\ instantiations[1].match_line_no < instantiations[1].line_no[1]
    /\ instantiations[1].line_no[1] < instantiations[2].match_line_no
    /\ instantiations[1].blamed_terms # instantiations[2].blamed_terms
    /\ dependencies # <<>>

\* The permanent dependencies whose destination is the line of instantiation i.
C6_Incoming(i) ==
    {k \in DOMAIN dependencies : dependencies[k].to = instantiations[i].line_no}

C6_Closed(i) == i \in DOMAIN instantiations /\ i \notin Range(inst_stack)

\* C6: every instantiation whose block was closed has at least one permanent
\* Dependency whose destination is its line, and exactly one, of kind none,
\* when its match resolved no causal dependency.
C6_IncomingDependency ==
    \A i \in DOMAIN instantiations :
        C6_Closed(i) =>
            /\ C6_Incoming(i) # {}
            /\ instantiations[i].dep_instantiations = <<>> =>
                   /\ Cardinality(C6_Incoming(i)) = 1
                   /\ \A k \in C6_Incoming(i) : dependencies[k].dep_type = "None"

\* C7: after a log was parsed without error (no line failed, no block is
\* open), no Dependency created by a new-match or inst-discovered line is left
\* with an unresolved destination: every bucket of provisional dependencies
\* was finalized, and every permanent Dependency has a destination line.
C7_NoneUnresolved ==
    (status = "ok" /\ inst_stack = <<>>) =>
        /\ \A m \in DOMAIN temp_dependencies : temp_dependencies[m] = <<>>
        /\ \A k \in DOMAIN dependencies : IsSome(dependencies[k].to)

\* C7 as amended: every permanent Dependency has a destination line, and no
\* provisional Dependency is left under the match line of an instantiation
\* whose block was closed.  (The provisional dependencies of a match that was
\* never instantiated stay in its bucket, unresolved.)
C7_ClosedFinalized ==
    /\ \A k \in DOMAIN dependencies : IsSome(dependencies[k].to)
    /\ \A i \in DOMAIN instantiations :
           C6_Closed(i) => temp_dependencies[instantiations[i].match_line_no] = <<>>

\* C7 witness: a log parsed without error, one block closed and its
\* dependencies finalized, one match never instantiated.
C7_Witness ==
    /\ status = "ok"
    /\ inst_stack = <<>>
    /\ dependencies # <<>>
    /\ \E i \in DOMAIN instantiations : C6_Closed(i)
    /\ \E m \in DOMAIN temp_dependencies :
           /\ temp_dependencies[m] # <<>>
           /\ \A i \in DOMAIN instantiations : instantiations[i].match_line_no # m

C8_Step ==
    (Handles("end-of-instance") /\ inst_stack # <<>>) =>
        LET inst == instantiations[Last(inst_stack)]
            bucket == temp_dependencies[inst.match_line_no]
            n == Len(dependencies)
        IN
        /\ Len(dependencies') = n + Len(bucket)
        /\ temp_dependencies'[inst.match_line_no] = <<>>
        /\ \A k \in DOMAIN bucket :
               /\ dependencies'[n + k].from = bucket[k].from
               /\ dependencies'[n + k].blamed = bucket[k].blamed
               /\ dependencies'[n + k].dep_type = bucket[k].dep_type
               /\ dependencies'[n + k].to = inst.line_no
               /\ dependencies'[n + k].quant = inst.quant
               /\ dependencies'[n + k].quant_discovered = inst.quant_discovered

\* C8: end-of-instance moves every provisional Dependency recorded under the
\* popped instantiation's match line to the permanent list, each with its
\* destination set to the popped instantiation's line and its quantifier and
\* discovered-flag set to those of that instantiation.
C8_Finalization == [][C8_Step]_vars

\* How often x occurs in the sequence s.
C9_Count(s, x) == Cardinality({k \in DOMAIN s : s[k] = x})

C9_Inv ==
    /\ \A q \in DOMAIN quantifiers :
           /\ quantifiers[q].cost = Len(quantifiers[q].instances)
           /\ Range(quantifiers[q].instances) \subseteq DOMAIN instantiations
    /\ \A i \in DOMAIN instantiations :
           \A q \in DOMAIN quantifiers :
               C9_Count(quantifiers[q].instances, i) =
                   IF q = instantiations[i].quant THEN 1 ELSE 0

C9_Step ==
    /\ (Handles("instance") /\ status' = "ok") =>
           LET q == matches[line'.key].quant IN
           /\ Len(quantifiers') = Len(quantifiers)
           /\ quantifiers'[q].instances =
                  Append(quantifiers[q].instances, Len(instantiations'))
           /\ quantifiers'[q].cost = quantifiers[q].cost + 1
           /\ \A r \in DOMAIN quantifiers : r # q => quantifiers'[r] = quantifiers[r]
    /\ (Handles("instance") /\ status' # "ok") =>
           /\ quantifiers' = quantifiers
           /\ instantiations' = instantiations

\* C9: a successful instance line appends the new instantiation's index to
\* its quantifier's instance list and adds 1 to that quantifier's cost, so a
\* quantifier's cost is the length of its instance list and every
\* instantiation index occurs once, in its owner's list only; an instance line
\* that fails changes neither.
C9_QuantifierCount == []C9_Inv /\ [][C9_Step]_vars

\* C9 witness: an instance line counted by its quantifier, then a malformed
\* instance line that failed.
C9_Witness ==
    /\ line.tag = "instance"
    /\ ~line.wf
    /\ status = "error"
    /\ \E q \in DOMAIN quantifiers : quantifiers[q].cost = 1
    /\ Len(instantiations) = 1

C10_Step ==
    (Handles("attach-enode") /\ Resolves(line'.key) /\ line'.wf) =>
        /\ status' = "ok"
        /\ IF inst_stack # <<>>
           THEN LET top == C2_LatestOpen
                    idx == term_map[line'.key]
                IN
                /\ terms' = [terms EXCEPT ![idx].resp_inst = Some(top)]
                /\ instantiations'[top].yields_terms =
                       Append(instantiations[top].yields_terms, idx)
                /\ instantiations' =
                       [instantiations EXCEPT
                           ![top].yields_terms = instantiations'[top].yields_terms]
                /\ UNCHANGED <<term_map, discovered_map, quantifiers, matches,
                               inst_stack, temp_dependencies, dependencies>>
           ELSE UNCHANGED store

\* C10: an attach-enode line for a resolvable term makes the innermost open
\* instantiation the term's responsible instantiation and appends the term to
\* that instantiation's yielded terms, changing no other instantiation; with no
\* instantiation open the line succeeds and changes nothing of the parser.
C10_AttachEnode == [][C10_Step]_vars

\* C10 witness: a term attached while two blocks are open.
C10_Witness ==
    /\ line.tag = "attach-enode"
    /\ status = "ok"
    /\ Len(inst_stack) = 2
    /\ instantiations[inst_stack[2]].yields_terms # <<>>
    /\ instantiations[inst_stack[1]].yields_terms = <<>>
    /\ \E t \in DOMAIN terms : terms[t].resp_inst = Some(inst_stack[2])

\* The term declared last under the textual id.
C11_Latest(id) ==
    CHOOSE t \in DOMAIN terms :
        /\ terms[t].id = id
        /\ \A u \in DOMAIN terms : terms[u].id = id => u <= t

C11_Inv ==
    \A id \in TermIds :
        get_term(id) = IF \E t \in DOMAIN terms : terms[t].id = id
                       THEN Some(C11_Latest(id)) ELSE None

C11_Step ==
    \A id \in DOMAIN term_map :
        /\ id \in DOMAIN term_map'
        /\ term_map'[id] # term_map[id] =>
               /\ Handles("mk-app") \/ Handles("mk-quant")
               /\ line'.key = id
               /\ status' = "ok"

\* C11: looking up a textual id returns the index of the term declared last
\* under that id, and nothing for an id never declared; a declaration changes
\* the binding of its own id only, and no binding is ever removed.
C11_Lookup == []C11_Inv /\ [][C11_Step]_vars

\* C11 witness: one id was declared twice and another never.
C11_Witness ==
    /\ Len(terms) = 2
    /\ terms[1].id = terms[2].id
    /\ get_term(terms[1].id) = Some(2)
    /\ \E id \in TermIds : get_term(id) = None

\* The synthesis key of an inst-discovered line.
C12_Key(arg) == IF arg[1] = "MBQI" THEN MBQIKey ELSE TheorySolvingKey(arg[2])

\* The quantifiers made for discoveries.
C12_Discovered == {q \in DOMAIN quantifiers : quantifiers[q].kind[1] = "Other"}

C12_Inv ==
    /\ \A k \in DOMAIN discovered_map : discovered_map[k] \in C12_Discovered
    /\ \A k1, k2 \in DOMAIN discovered_map :
           discovered_map[k1] = discovered_map[k2] => k1 = k2
    /\ Cardinality(C12_Discovered) = Cardinality(DOMAIN discovered_map)

C12_Step ==
    /\ \A k \in DOMAIN discovered_map :
           k \in DOMAIN discovered_map' /\ discovered_map'[k] = discovered_map[k]
    /\ (Handles("inst-discovered") /\ line'.arg[1] \in {"MBQI", "theory-solving"}) =>
           LET k == C12_Key(line'.arg) IN
           IF k \in DOMAIN discovered_map
           THEN /\ quantifiers' = quantifiers
                /\ discovered_map' = discovered_map
                /\ status' = "ok" => matches'[line'.key].quant = discovered_map[k]
           ELSE /\ Len(quantifiers') = Len(quantifiers) + 1
                /\ SubSeq(quantifiers', 1, Len(quantifiers)) = quantifiers
                /\ DOMAIN discovered_map' = DOMAIN discovered_map \cup {k}
                /\ discovered_map'[k] = Len(quantifiers')
                /\ status' = "ok" => matches'[line'.key].quant = Len(quantifiers')
    /\ ~Handles("inst-discovered") => discovered_map' = discovered_map

\* C12: the first inst-discovered line of a synthesis key creates one
\* quantifier, and every later line of that key gets the same quantifier and
\* creates none; the key of an MBQI line is the same for all of them, the key
\* of a theory-solving line is its theory-term id, and different keys have
\* different quantifiers.
C12_GetOrInsert == []C12_Inv /\ [][C12_Step]_vars

\* C12 witness: the second of two theory-solving discoveries with one
\* theory-term id, sharing the quantifier of the first.
C12_Witness ==
    /\ line.tag = "inst-discovered"
    /\ status = "ok"
    /\ consumed["inst-discovered"] = 2
    /\ Cardinality(DOMAIN matches) = 2
    /\ \A fp \in DOMAIN matches : matches[fp].quant_discovered
    /\ Cardinality(C12_Discovered) = 1
    /\ DOMAIN discovered_map = {TheorySolvingKey(1)}

C13_Inv ==
    \A t \in DOMAIN terms :
        \A k \in DOMAIN terms[t].child_ids : terms[t].child_ids[k] < t

C13_Step ==
    ((Handles("mk-app") \/ Handles("mk-quant")) /\ status' = "ok") =>
        /\ Len(terms') = Len(terms) + 1
        /\ Len(Last(terms').child_ids) = Len(line'.arg)
        /\ \A k \in DOMAIN line'.arg :
               /\ \E t \in DOMAIN terms : terms[t].id = line'.arg[k]
               /\ Last(terms').child_ids[k] = C11_Latest(line'.arg[k])
        /\ \A t \in DOMAIN terms : terms'[t].child_ids = terms[t].child_ids

\* C13: every child index of a term is smaller than the term's own index; a
\* declaration resolves each child id to the term declared last under that id
\* before the declaration itself, also when the declaration reuses the id, and
\* the children of a term never change afterwards.
C13_ChildrenExist == []C13_Inv /\ [][C13_Step]_vars

\* C13 witness: a declaration that reuses the id of its own child.
C13_Witness ==
    /\ Len(terms) = 2
    /\ terms[2].id = terms[1].id
    /\ terms[2].child_ids = <<1>>
    /\ get_term(terms[2].id) = Some(2)

C14_Inv ==
    /\ \A t \in DOMAIN terms :
           terms[t].kind[1] = "Quant" =>
               /\ terms[t].kind[2] \in DOMAIN quantifiers
               /\ quantifiers[terms[t].kind[2]].term = Some(t)
    /\ \A q \in DOMAIN quantifiers :
           IsSome(quantifiers[q].term) =>
               /\ Unwrap(quantifiers[q].term) \in DOMAIN terms
               /\ terms[Unwrap(quantifiers[q].term)].kind = <<"Quant", q>>

C14_Step ==
    Handles("mk-quant") =>
        IF line'.arg # <<>> /\ AllResolve(line'.arg)
        THEN /\ status' = "ok"
             /\ Len(terms') = Len(terms) + 1
             /\ Len(quantifiers') = Len(quantifiers) + 1
             /\ Last(terms').kind = <<"Quant", Len(quantifiers')>>
             /\ Last(quantifiers').term = Some(Len(terms'))
        ELSE /\ status' # "ok"
             /\ terms' = terms
             /\ quantifiers' = quantifiers

\* C14: a mk-quant line with at least one child, all resolvable, creates one
\* term of kind Quantifier and one Quantifier record, the term's kind carrying
\* the record's index and the record's term field the term's index; with no
\* child it fails and creates neither.  So every quantifier-kind term and its
\* Quantifier record reference each other.
C14_QuantPair == []C14_Inv /\ [][C14_Step]_vars

\* C14 witness: a quantifier was declared over a declared child.
C14_Witness ==
    /\ line.tag = "mk-quant"
    /\ status = "ok"
    /\ Len(quantifiers) = 1
    /\ terms[Len(terms)].kind = <<"Quant", 1>>
    /\ quantifiers[1].term = Some(Len(terms))

C15_Step ==
    /\ \A t \in DOMAIN terms :
           IsSome(terms[t].meaning) => terms'[t].meaning = terms[t].meaning
    /\ (Handles("attach-meaning") /\ line'.wf /\ Resolves(line'.key)) =>
           LET idx == term_map[line'.key]
               new == Unwrap(line'.arg)
           IN
           IF terms[idx].meaning = None
           THEN /\ status' = "ok"
                /\ terms' = [terms EXCEPT ![idx].meaning = Some(new)]
           ELSE IF terms[idx].meaning = Some(new)
           THEN status' = "ok" /\ UNCHANGED store
           ELSE status' # "ok" /\ UNCHANGED store

\* C15: a meaning, once attached to a term, never changes.  An attach-meaning
\* line whose theory and value are the ones attached already succeeds and
\* changes nothing; one with another theory or another value fails and leaves
\* the meaning attached.
C15_MeaningOnce == [][C15_Step]_vars

\* C15 witness: the meaning of a term was attached twice, the same both times.
C15_Witness ==
    /\ line.tag = "attach-meaning"
    /\ status = "ok"
    /\ consumed["attach-meaning"] = 2
    /\ Cardinality({t \in DOMAIN terms : IsSome(terms[t].meaning)}) = 1

\* The names a line of well-formed tuples states: the types, or the names
\* and the types without their bars.
C16_Written(p) ==
    IF p[1].kind = "type"
    THEN <<"TypeOnly", [i \in DOMAIN p |-> <<"Int">>]>>
    ELSE <<"NameAndType", [i \in DOMAIN p |-> <<<<"x">>, <<"Int">>>>]>>

C16_Step ==
    /\ \A q \in DOMAIN quantifiers :
           IsSome(quantifiers[q].vars) => quantifiers'[q].vars = quantifiers[q].vars
    /\ (Handles("attach-var-names") /\ line'.wf /\ Resolves(line'.key)
            /\ terms[term_map[line'.key]].kind[1] = "Quant") =>
           LET q == terms[term_map[line'.key]].kind[2] IN
           IF quantifiers[q].vars = None
           THEN /\ status' = "ok"
                /\ quantifiers' =
                       [quantifiers EXCEPT ![q].vars = Some(C16_Written(line'.arg))]
           ELSE status' # "ok" /\ UNCHANGED store

\* C16: the variable names of a quantifier are attached at most once.  After
\* an attach-var-names line succeeded, every further one for the same
\* quantifier fails, also with the same list, and the names stored are never
\* replaced.
C16_VarNamesOnce == [][C16_Step]_vars

\* C16 witness: the names attached already were attached again, and the line
\* failed.
C16_Witness ==
    /\ line.tag = "attach-var-names"
    /\ line.wf
    /\ status # "ok"
    /\ consumed["attach-var-names"] = 2
    /\ Resolves(line.key)
    /\ terms[term_map[line.key]].kind[1] = "Quant"
    /\ quantifiers[terms[term_map[line.key]].kind[2]].vars =
           Some(C16_Written(line.arg))

\* The records of the earlier lines are kept by a step.
C17_Kept ==
    /\ terms' = terms
    /\ instantiations' = instantiations
    /\ dependencies' = dependencies
    /\ Len(quantifiers') >= Len(quantifiers)
    /\ SubSeq(quantifiers', 1, Len(quantifiers)) = quantifiers

C17_Step ==
    /\ status = "ok"
    /\ (line'.tag \in Tags /\ status' # "ok") =>
           /\ C17_Kept
           /\ Returned' = Some(<<terms, quantifiers', instantiations, dependencies>>)

\* C17: when a line fails, no later line is handled, every term, quantifier,
\* instantiation and permanent dependency of the earlier lines is kept as it
\* was, and the caller gets them with the error.
C17_PrefixReturned == [][C17_Step]_vars

C19_Yielded(old, new) ==
    \E t \in DOMAIN terms : new = [old EXCEPT !.yields_terms = Append(@, t)]

C19_Step ==
    /\ Len(instantiations') >= Len(instantiations)
    /\ \A i \in DOMAIN instantiations :
           \/ instantiations'[i] = instantiations[i]
           \/ /\ Handles("attach-enode")
              /\ i \in Range(inst_stack)
              /\ i = C2_LatestOpen
              /\ C19_Yielded(instantiations[i], instantiations'[i])

\* C19: no line changes a field of an instantiation whose block was closed by
\* end-of-instance; of the open ones only the innermost changes, and only by an
\* attach-enode line that appends a term to those it yields.
C19_ClosedImmutable == [][C19_Step]_vars

\* C19 witness: an inner block was closed, and a term was attached to the outer
\* one, which is still open.
C19_Witness ==
    /\ line.tag = "attach-enode"
    /\ status = "ok"
    /\ Len(instantiations) = 2
    /\ inst_stack = <<1>>
    /\ instantiations[1].yields_terms # <<>>
    /\ instantiations[2].yields_terms = <<>>

\* The line numbers of the Instantiation records.
C20_InstLines == {Unwrap(instantiations[i].line_no) : i \in DOMAIN instantiations}

\* C20: the graph of a parsed log has one node for each Instantiation record
\* and no other node, and its map from nodes to line numbers is a bijection
\* between the nodes and the line numbers of the instantiations.
C20_NodePerInstantiation ==
    status = "done" =>
        LET g == get_instantiation_graph IN
        /\ Len(g.nodes) = Len(instantiations)
        /\ Range(g.nodes) = C20_InstLines
        /\ DOMAIN g.line_nr_of_node = DOMAIN g.nodes
        /\ \A n \in DOMAIN g.nodes : g.line_nr_of_node[n] = g.nodes[n]
        /\ DOMAIN g.node_of_line_nr = C20_InstLines
        /\ \A l \in C20_InstLines : g.line_nr_of_node[g.node_of_line_nr[l]] = l

\* A dependency that the graph draws: finalized, with a destination, and of
\* term or equality provenance.
C21_Qualifying(d) == IsSome(d.to) /\ d.dep_type \in {"Term", "Equality"}

\* The edges of a graph as pairs of line numbers.
C21_EdgeLines(g) ==
    [i \in DOMAIN g.edges |-> <<g.nodes[g.edges[i][1]], g.nodes[g.edges[i][2]]>>]

\* C21: the graph of a parsed log has exactly one edge for each finalized
\* dependency that has a destination and is of term or equality provenance,
\* from the node of the blamed instantiation to the node of the dependent one;
\* a dependency of kind none adds no edge and no node of its own.
C21_EdgePerDependency ==
    status = "done" =>
        LET g == get_instantiation_graph
            q == SelectSeq(dependencies, C21_Qualifying)
        IN
        /\ C21_EdgeLines(g) = [i \in DOMAIN q |-> <<q[i].from, Unwrap(q[i].to)>>]
        /\ Range(g.nodes) \subseteq C20_InstLines

\* The end-to-end log: after the declarations, a quantifier fires with no
\* blamed term, yields a term and closes; then it fires again, blaming that
\* term, and closes; then the stream ends.  The line numbers pin the order of
\* the seven lines after the declarations.
C22_Scenario ==
    LET n == Len(terms) IN
    /\ status = "done"
    /\ line_no = n + 7
    /\ Len(quantifiers) = 1
    /\ Len(instantiations) = 2
    /\ consumed["new-match"] = 2 /\ consumed["attach-enode"] = 1
    /\ instantiations[1].match_line_no = n + 1
    /\ instantiations[1].line_no = Some(n + 2)
    /\ instantiations[1].blamed_terms = <<>>
    /\ Len(instantiations[1].yields_terms) = 1
    /\ instantiations[2].match_line_no = n + 5
    /\ instantiations[2].line_no = Some(n + 6)
    /\ instantiations[2].blamed_terms = <<Single(instantiations[1].yields_terms[1])>>

\* C22: the graph of the end-to-end log has exactly two nodes and exactly one
\* edge, from the node of the first instantiation to the node of the second;
\* the first instantiation has one dependency of kind none and the second
\* depends on the first.
C22_EndToEnd ==
    C22_Scenario =>
        LET g == get_instantiation_graph
            first == Unwrap(instantiations[1].line_no)
            second == Unwrap(instantiations[2].line_no)
            Into(l) == SelectSeq(dependencies, LAMBDA d : d.to = Some(l))
        IN
        /\ Len(g.nodes) = 2
        /\ C21_EdgeLines(g) = <<<<first, second>>>>
        /\ Len(Into(first)) = 1 /\ Into(first)[1].dep_type = "None"
        /\ Len(Into(second)) = 1 /\ Into(second)[1].dep_type = "Term"
        /\ Into(second)[1].from = first

\* C24: a RenderGraph request without permission whose reduction has more
\* edges than the edge limit, or more nodes than the default node count,
\* while neither count decreased since the previous reduction, asks the user
\* for permission and does not start rendering, whatever the other count is.
C24_RenderGate ==
    LET m == msgs.msg IN
    (/\ m.kind = "RenderGraph"
     /\ ~m.permission
     /\ ~m.ret.node_count_decreased
     /\ ~m.ret.edge_count_decreased
     /\ (m.ret.edge_count > EDGE_LIMIT \/ m.ret.node_count > DEFAULT_NODE_COUNT))
        => msgs.sent.kind = "GetUserPermission"

\* The component's graph, and the counts of its full graph.
C25_Graph == Unwrap(svg_result).inst_graph
C25_FullCounts ==
    [node_count |-> C25_Graph.orig_graph.node_count,
     edge_count |-> Cardinality(C25_Graph.orig_graph.edges)]

\* C25: whatever the mask was, after Hide(n) and then Reset every node is
\* visible, and the reduction that follows reports the node count and the
\* edge count of the full graph.
C25_HideReset ==
    /\ (msgs.msg.kind = "ResetGraph" /\ msgs.prev = "Hide") =>
           C25_Graph.visible = AllVisible(C25_Graph.orig_graph)
    /\ (msgs.msg.kind = "RenderGraph" /\ msgs.prev = "ResetGraph"
            /\ msgs.prev2 = "Hide") =>
           /\ C25_Graph.visible = AllVisible(C25_Graph.orig_graph)
           /\ Unwrap(svg_result).graph_dim = C25_FullCounts
           /\ msgs.msg.ret.node_count = C25_FullCounts.node_count
           /\ msgs.msg.ret.edge_count = C25_FullCounts.edge_count

\* C25 witness: a node of a graph with edges was hidden, then the graph was
\* reset and reduced.
C25_Witness ==
    /\ msgs.msg.kind = "RenderGraph"
    /\ msgs.prev = "ResetGraph"
    /\ msgs.prev2 = "Hide"
    /\ Unwrap(svg_result).graph_dim.edge_count > 1
    /\ ~msgs.msg.ret.node_count_decreased

\* The full graph has a path of at least one edge from m to n.
C26_Path(g, m, n) ==
    \E p \in SeqsUpTo(NodesOf(g), g.node_count) :
        /\ Len(p) >= 2
        /\ p[1] = m
        /\ p[Len(p)] = n
        /\ \A i \in 1..(Len(p) - 1) : <<p[i], p[i + 1]>> \in g.edges

\* C26: after ShowSourceTree(n) the visible nodes are n and the nodes from
\* which the full graph has a path to n, and every other node is hidden,
\* whatever was visible before.
C26_SourceTree ==
    LET m == msgs.msg
        ig == Unwrap(svg_result).inst_graph
    IN
    (m.kind = "ApplyFilter" /\ m.filter.kind = "ShowSourceTree") =>
        \A x \in NodesOf(ig.orig_graph) :
            ig.visible[x] <=> (x = m.filter.node \/ C26_Path(ig.orig_graph, x, m.filter.node))

\* C26 witness: after a Hide, the source tree of a node with an ancestor was
\* shown, and a node outside it is hidden.
C26_Witness ==
    LET m == msgs.msg
        ig == Unwrap(svg_result).inst_graph
    IN
    /\ m.kind = "ApplyFilter" /\ m.filter.kind = "ShowSourceTree"
    /\ msgs.prev = "Hide"
    /\ Cardinality(VisibleNodes(ig)) = 2
    /\ \E x \in NodesOf(ig.orig_graph) : ~ig.visible[x]

\* A RenderGraph is handled right after another one: the reduction runs twice
\* with no change of the mask in between.
C27_Step ==
    (/\ msgs.msg.kind = "RenderGraph"
     /\ msgs'.msg.kind = "RenderGraph"
     /\ Len(msgs'.renders) >= Len(msgs.renders)) =>
        /\ msgs'.msg.ret.node_count = msgs.msg.ret.node_count
        /\ msgs'.msg.ret.edge_count = msgs.msg.ret.edge_count
        /\ Unwrap(svg_result').inst_graph.visible_graph =
               Unwrap(svg_result).inst_graph.visible_graph
        /\ ~msgs'.msg.ret.node_count_decreased
        /\ ~msgs'.msg.ret.edge_count_decreased

\* C27: the reduction is idempotent: called twice with no change of the mask
\* in between, it returns the same node count and edge count and builds the
\* same direct and indirect edges, and the second call reports that neither
\* count decreased.
C27_Idempotent == [][C27_Step]_vars

\* C27 witness: the reduction ran twice in a row on a graph with a hidden node
\* and left a visible graph with an indirect edge.
C27_Witness ==
    LET ig == Unwrap(svg_result).inst_graph IN
    /\ msgs.msg.kind = "RenderGraph"
    /\ msgs.prev = "RenderGraph"
    /\ \E n \in NodesOf(ig.orig_graph) : ~ig.visible[n]
    /\ \E e \in ig.visible_graph.edges : e[3] = "Indirect"

\* The sequences of nodes that may be a path of g.
C28_Walks(g) == SeqsUpTo(NodesOf(g), g.node_count)
\* The full graph has a path from u to v over at least one intermediate node,
\* all of them hidden.
C28_HiddenPath(ig, u, v) ==
    \E p \in C28_Walks(ig.orig_graph) :
        /\ Len(p) >= 3
        /\ p[1] = u
        /\ p[Len(p)] = v
        /\ \A i \in 1..(Len(p) - 1) : <<p[i], p[i + 1]>> \in ig.orig_graph.edges
        /\ \A i \in 2..(Len(p) - 1) : ~ig.visible[p[i]]
\* The visible graph has a path of at least one edge from u to v.
C28_VisiblePath(ig, u, v) ==
    \E p \in C28_Walks(ig.orig_graph) :
        /\ Len(p) >= 2
        /\ p[1] = u
        /\ p[Len(p)] = v
        /\ \A i \in 1..(Len(p) - 1) :
              \E t \in {"Direct", "Indirect"} :
                  <<p[i], p[i + 1], t>> \in ig.visible_graph.edges

\* C28: after a reduction the visible graph has exactly the visible nodes;
\* between visible nodes u and v it has a direct edge exactly when the full
\* graph has the edge, an indirect edge exactly when the full graph has a
\* path from u to v over hidden nodes only (at least one), and a path
\* exactly when the full graph has one.
C28_Reachability ==
    LET ig == Unwrap(svg_result).inst_graph IN
    msgs.msg.kind = "RenderGraph" =>
        /\ ig.visible_graph.nodes = VisibleNodes(ig)
        /\ \A e \in ig.visible_graph.edges :
              e[1] \in VisibleNodes(ig) /\ e[2] \in VisibleNodes(ig)
        /\ \A u \in VisibleNodes(ig), v \in VisibleNodes(ig) :
              /\ <<u, v, "Direct">> \in ig.visible_graph.edges
                    <=> <<u, v>> \in ig.orig_graph.edges
              /\ <<u, v, "Indirect">> \in ig.visible_graph.edges
                    <=> C28_HiddenPath(ig, u, v)
              /\ C28_VisiblePath(ig, u, v) <=> C26_Path(ig.orig_graph, u, v)

\* C28 witness: a reduction left two visible nodes joined by an indirect edge
\* that stands for a chain of two hidden nodes.
C28_Witness ==
    LET ig == Unwrap(svg_result).inst_graph IN
    /\ msgs.msg.kind = "RenderGraph"
    /\ Cardinality(VisibleNodes(ig)) = 2
    /\ \E e \in ig.visible_graph.edges :
          /\ e[3] = "Indirect"
          /\ \A h \in Successors(ig.orig_graph, {e[1]}) :
                ~ig.visible[h] /\ <<h, e[2]>> \notin ig.orig_graph.edges

\* The record and the bucket of the match the last line registered.
C29_Match == matches[line.key]
C29_Bucket == temp_dependencies[line.no + 1]
\* The line of the instantiation responsible for term t.
C29_RespLine(t) == Unwrap(instantiations[Unwrap(terms[t].resp_inst)].line_no)
\* How often the match blames term t by a plain id.
C29_Singles(t) ==
    Cardinality({i \in DOMAIN C29_Match.blamed_terms :
                    C29_Match.blamed_terms[i] = Single(t)})
\* The Literal explanations with equality t of the pairs the match blames:
\* one element for each pair (a, b) with a # b and each such explanation of a
\* that leads to b.
C29_Literals(t) ==
    {<<i, j>> \in (DOMAIN C29_Match.blamed_terms) \X (1..MaxEqExpl) :
        LET item == C29_Match.blamed_terms[i] IN
        /\ item[1] = "Pair"
        /\ item[2] # item[3]
        /\ j \in DOMAIN terms[item[2]].equality_expls
        /\ terms[item[2]].equality_expls[j].kind = "Literal"
        /\ terms[item[2]].equality_expls[j].from = item[2]
        /\ terms[item[2]].equality_expls[j].to = item[3]
        /\ terms[item[2]].equality_expls[j].eq = t}
\* The dependencies of a kind in the bucket that blame term t.
C29_Recorded(dep_type, t) ==
    {i \in DOMAIN C29_Bucket :
        C29_Bucket[i].dep_type = dep_type /\ C29_Bucket[i].blamed = Some(t)}

\* C29: a new-match records, for each plain blamed id whose term has a
\* responsible instantiation, one dependency of term provenance, and for each
\* blamed pair (a, b) with a # b one dependency of equality provenance per
\* Literal explanation of a leading to b whose equality has a responsible
\* instantiation; each has the line of that instantiation as its source and
\* the term blamed.  Pairs with a = b, terms without a responsible
\* instantiation and explanations of the other kinds record none.
C29_Resolution ==
    (line.tag = "new-match" /\ status = "ok") =>
        /\ \A t \in DOMAIN terms :
              LET resp == IsSome(terms[t].resp_inst) IN
              /\ Cardinality(C29_Recorded("Term", t)) =
                     IF resp THEN C29_Singles(t) ELSE 0
              /\ Cardinality(C29_Recorded("Equality", t)) =
                     IF resp THEN Cardinality(C29_Literals(t)) ELSE 0
        /\ \A i \in DOMAIN C29_Bucket :
              C29_Bucket[i].dep_type \in {"Term", "Equality"} =>
                  /\ IsSome(C29_Bucket[i].blamed)
                  /\ Unwrap(C29_Bucket[i].blamed) \in DOMAIN terms
                  /\ C29_Bucket[i].from = C29_RespLine(Unwrap(C29_Bucket[i].blamed))
                  /\ C29_Bucket[i].to = None

\* C29 witness: a match blamed a term by its id and an equality by a pair,
\* the term of the pair has a Literal explanation and one of another kind, and
\* the bucket holds one dependency of each provenance.
C29_Witness ==
    /\ line.tag = "new-match" /\ status = "ok"
    /\ Len(C29_Match.blamed_terms) = 2
    /\ \E t \in DOMAIN terms :
          /\ Len(terms[t].equality_expls) = 2
          /\ \E j \in 1..2 : terms[t].equality_expls[j].kind = "Congruence"
    /\ \E i, j \in DOMAIN C29_Bucket :
          C29_Bucket[i].dep_type = "Term" /\ C29_Bucket[j].dep_type = "Equality"

\* The last line was a match or a discovery that registered its record.
C30_Matched == line.tag \in {"new-match", "inst-discovered"} /\ status = "ok"

\* C30 as stated: whenever a new-match or inst-discovered resolves a
\* dependency against the instantiation that produced a blamed term, that
\* instantiation is closed: it is not on the instantiation stack.
C30_ProducerClosed ==
    C30_Matched =>
        \A i \in Range(matches[line.key].dep_instantiations) :
            i \notin Range(inst_stack)

\* C30 amended: whenever a new-match or inst-discovered resolves a dependency
\* against the instantiation that produced a blamed term, that instantiation
\* was promoted by its instance line before the match: its line number is
\* set, is smaller than the line of the match and is the source of the
\* dependency; the instantiation may still be open.
C30_ProducerPromoted ==
    C30_Matched =>
        LET bucket == temp_dependencies[line.no + 1] IN
        \A k \in DOMAIN bucket :
            bucket[k].dep_type # "None" =>
                LET resp == terms[Unwrap(bucket[k].blamed)].resp_inst IN
                /\ IsSome(resp)
                /\ instantiations[Unwrap(resp)].line_no = Some(bucket[k].from)
                /\ bucket[k].from < line.no + 1
                /\ Unwrap(resp) \in Range(matches[line.key].dep_instantiations)

\* C30 witness: a match blamed a term yielded by an instantiation that is
\* still open, and the dependency was resolved.
C30_Witness ==
    /\ C30_Matched
    /\ \E i \in Range(matches[line.key].dep_instantiations) : i \in Range(inst_stack)
    /\ \E k \in DOMAIN temp_dependencies[line.no + 1] :
          temp_dependencies[line.no + 1][k].dep_type = "Term"

C31_NoDuplicates ==
    \A t \in DOMAIN terms :
        \A i, j \in DOMAIN terms[t].equality_expls :
            terms[t].equality_expls[i] = terms[t].equality_expls[j] => i = j

\* The explanation an [eq-expl] line states, read off the line: its kind, its
\* source, its payload and its destination.
C31_Stated(ln) ==
    [kind |-> CASE ln.arg[1] = "root" -> "Root"
                [] ln.arg[1] = "lit" -> "Literal"
                [] ln.arg[1] = "cg" -> "Congruence"
                [] ln.arg[1] = "th" -> "Theory"
                [] ln.arg[1] = "ax" -> "Axiom"
                [] OTHER -> "Unknown",
     from |-> term_map[ln.key],
     eq |-> IF ln.arg[1] = "lit" THEN term_map[ln.arg[2]] ELSE 0,
     args |-> ln.arg[3],
     to |-> IF ln.arg[1] = "root" THEN term_map[ln.key] ELSE term_map[ln.arg[4]]]

C31_Step ==
    (Handles("eq-expl") /\ status' = "ok") =>
        LET t == term_map[line'.key]
            old == terms[t].equality_expls
            new == terms'[t].equality_expls
        IN
        /\ IF C31_Stated(line') \in Range(old)
           THEN new = old
           ELSE new = Append(old, C31_Stated(line'))
        /\ \A u \in DOMAIN terms : u # t => terms'[u] = terms[u]

\* C31: a term's list of equality explanations never holds two equal entries.
\* An eq-expl line whose explanation (kind, source, payload, destination)
\* equals one the term has already succeeds and leaves the list as it was;
\* any other line that succeeds appends exactly one entry.
C31_Deduplicated == []C31_NoDuplicates /\ [][C31_Step]_vars

\* C31 witness: the second eq-expl line of a log repeated the first, and
\* the term holds the explanation once.
C31_Witness ==
    /\ line.tag = "eq-expl"
    /\ status = "ok"
    /\ consumed["eq-expl"] = 2
    /\ \A t \in DOMAIN terms :
           Len(terms[t].equality_expls) = IF t = term_map[line.key] THEN 1 ELSE 0
    /\ terms[term_map[line.key]].equality_expls[1] = C31_Stated(line)

\* The tuples of the line are written in one form / hold the same things.
C32_OneForm(p) == \A i \in DOMAIN p : p[i].form = p[1].form
C32_Homogeneous(p) ==
    \/ \A i \in DOMAIN p : p[i].kind = "type"
    \/ \A i \in DOMAIN p : p[i].kind # "type"

C32_Step ==
    Handles("attach-var-names") =>
        LET p == line'.arg IN
        /\ status' = "ok" => (p # <<>> /\ C32_OneForm(p) /\ C32_Homogeneous(p))
        /\ (~C32_OneForm(p) \/ ~C32_Homogeneous(p)) =>
               /\ status' = "error"
               /\ quantifiers' = quantifiers
               /\ UNCHANGED store

\* C32: attach-var-names takes a tuple list only when every tuple is written
\* in the form of the first one ((A;B), (A B) or (A ; B)) and the list holds
\* types only or names with types only; a list that mixes forms, or mixes
\* type-only tuples with name+type tuples, fails and leaves the variable
\* names of the quantifier as they were, unset if none were attached.
C32_ConsistentTuples == [][C32_Step]_vars

\* C32 witness: a line of two name+type tuples in bars, the first written
\* (A;B) and the second (A ; B), failed for a quantifier without names.
C32_Witness ==
    /\ line.tag = "attach-var-names"
    /\ status = "error"
    /\ Len(line.arg) = 2
    /\ line.arg[1].form = 0
    /\ line.arg[2].form = 2
    /\ \A i \in DOMAIN line.arg : line.arg[i].kind = "named"
    /\ Resolves(line.key)
    /\ terms[term_map[line.key]].kind[1] = "Quant"
    /\ quantifiers[terms[term_map[line.key]].kind[2]].vars = None

\* The step handles a request of this kind (and not a finished render).
C33_Handles(kind) ==
    msgs'.msg.kind = kind /\ Len(msgs'.renders) >= Len(msgs.renders)

\* The reduction is not safe to render: a count is over its threshold and
\* neither count decreased.
C33_Unsafe(ret) ==
    /\ ret.edge_count > EDGE_LIMIT \/ ret.node_count > DEFAULT_NODE_COUNT
    /\ ~ret.node_count_decreased
    /\ ~ret.edge_count_decreased
\* Both counts are over their thresholds and neither decreased.
C33_BothOver(ret) ==
    /\ ret.edge_count > EDGE_LIMIT /\ ret.node_count > DEFAULT_NODE_COUNT
    /\ ~ret.node_count_decreased
    /\ ~ret.edge_count_decreased

C33_Step(Unsafe(_)) ==
    /\ (C33_Handles("RenderGraph") /\ ~msgs'.msg.permission
            /\ Unsafe(msgs'.msg.ret)) =>
           /\ msgs'.sent = Send("GetUserPermission", FALSE)
           /\ msgs'.renders = msgs.renders
    /\ (C33_Handles("RenderGraph") /\ msgs'.msg.permission) =>
           /\ msgs.msg.kind = "GetUserPermission"
           /\ msgs.msg.answer = "render"
           /\ msgs'.sent.kind = "UpdateSvgText"
           /\ Len(msgs'.renders) = Len(msgs.renders) + 1
    /\ C33_Handles("GetUserPermission") =>
           /\ msgs'.renders = msgs.renders
           /\ msgs'.sent = Send("RenderGraph", TRUE) <=> msgs'.msg.answer = "render"
           /\ msgs'.msg.answer = "previous" => msgs'.sent = Send("SetToPrevious", FALSE)

\* C33: a graph that is not safe to render (a count over its threshold, no
\* decrease) is never rendered without the user's confirmation.  A RenderGraph
\* without permission sends GetUserPermission and starts no render; only a
\* confirmed answer sends RenderGraph with permission, which then renders; and
\* when the user declines both to render and to apply the filter unrendered,
\* the filter chain is told to return to its previous state and no render
\* starts.
C33_ConfirmedRender == [][C33_Step(C33_Unsafe)]_vars

\* The same dialog for the gate as it is coded: the user is asked when both
\* counts are over their thresholds and neither decreased.
C33_ConfirmedWhenBothOver == [][C33_Step(C33_BothOver)]_vars

\* The step handles the finished render of the request handled last.
C34_Finished ==
    /\ Len(msgs'.renders) < Len(msgs.renders)
    /\ msgs.renders = <<msgs'.done.render>>
    /\ msgs.msg.kind = "RenderGraph"

C34_StepEither ==
    C34_Finished =>
        (msgs'.done.sent = Send("DeselectAll", FALSE)
            <=> (msgs.msg.ret.node_count_decreased \/ msgs.msg.ret.edge_count_decreased))

\* C34: the nodes selected before are deselected exactly when a finished
\* render is that of a reduction whose node count or edge count decreased
\* relative to the previous reduction: handling UpdateSvgText sends
\* DeselectAll whenever the reduction reported a decrease, and never
\* otherwise.
C34_DeselectOnDecrease == [][C34_StepEither]_vars

\* C35: every instantiation that a new-match line created (matched by a
\* pattern, not discovered) and whose block was closed is a node of the graph
\* get_instantiation_graph returns, with its instance line as the weight,
\* whatever instantiations, discovered or not, produced the terms it blames.
C35_MatchedHasNode ==
    status \in {"ok", "done"} =>
        LET g == get_instantiation_graph IN
        \A i \in DOMAIN instantiations :
            (~instantiations[i].quant_discovered /\ C6_Closed(i)) =>
                LET l == Unwrap(instantiations[i].line_no) IN
                /\ l \in DOMAIN g.node_of_line_nr
                /\ g.nodes[g.node_of_line_nr[l]] = l
                /\ g.line_nr_of_node[g.node_of_line_nr[l]] = l

\* The nodes a node of the graph reaches over one edge or more.
RECURSIVE C36_Reached(_, _)
C36_Reached(g, S) ==
    LET next == S \cup {g.edges[k][2] : k \in {j \in DOMAIN g.edges : g.edges[j][1] \in S}}
    IN IF next = S THEN S ELSE C36_Reached(g, next)
C36_After(g, n) ==
    C36_Reached(g, {g.edges[k][2] : k \in {j \in DOMAIN g.edges : g.edges[j][1] = n}})

\* The instantiations an instantiation depends on, directly or not.
RECURSIVE C36_Causes(_)
C36_Causes(S) ==
    LET next == S \cup UNION {Range(instantiations[i].dep_instantiations) : i \in S}
    IN IF next = S THEN S ELSE C36_Causes(next)

\* C36: the causal order is acyclic.  Every permanent Dependency has a source
\* line strictly smaller than its destination line, every index among the
\* instantiations an Instantiation depends on is strictly smaller than its
\* own, and so neither the graph of the dependencies nor the dependence among
\* the instantiations has a cycle or a self-loop, however the blocks are
\* nested and the fingerprints used again.
C36_Acyclic ==
    /\ \A k \in DOMAIN dependencies :
           /\ IsSome(dependencies[k].to)
           /\ dependencies[k].from < Unwrap(dependencies[k].to)
    /\ \A i \in DOMAIN instantiations :
           /\ \A k \in DOMAIN instantiations[i].dep_instantiations :
                  instantiations[i].dep_instantiations[k] < i
           /\ i \notin C36_Causes(Range(instantiations[i].dep_instantiations))
    /\ LET g == get_instantiation_graph IN
       \A n \in DOMAIN g.nodes : n \notin C36_After(g, n)

\* C36 witness: a fingerprint was matched again after its first
\* instantiation yielded a term, blaming that term; both blocks were closed,
\* the second instantiation depends on the first, and the graph has an edge
\* for each of the two dependencies.
C36_Witness ==
    /\ status = "ok"
    /\ line.tag = "end-of-instance"
    /\ inst_stack = <<>>
    /\ Len(instantiations) = 2
    /\ instantiations[1].fingerprint = instantiations[2].fingerprint
    /\ instantiations[2].match_line_no > Unwrap(instantiations[1].line_no)
    /\ instantiations[2].dep_instantiations = <<1>>
    /\ \E k \in DOMAIN dependencies :
           /\ dependencies[k].dep_type = "Term"
           /\ dependencies[k].from = Unwrap(instantiations[1].line_no)
           /\ dependencies[k].to = instantiations[2].line_no
    /\ Len(get_instantiation_graph.edges) >= 2

C37_Inv ==
    \A t \in DOMAIN terms :
        IsSome(terms[t].resp_inst) =>
            LET i == Unwrap(terms[t].resp_inst) IN
            /\ i \in DOMAIN instantiations
            /\ IsSome(instantiations[i].line_no)
            /\ t \in Range(instantiations[i].yields_terms)
            /\ IsSome(add_dependency(t, "Term"))
            /\ Unwrap(add_dependency(t, "Term"))[2].from
                   = Unwrap(instantiations[i].line_no)

C37_Step ==
    (Handles("attach-enode") /\ status' = "ok" /\ inst_stack # <<>>) =>
        terms'[term_map[line'.key]].resp_inst = Some(C2_LatestOpen)

\* C37: whenever the responsible instantiation of a term is set to i, i is
\* an index of the instantiation arena whose record has its line number (so
\* that a dependency is resolved against it without failing) and lists the
\* term among the terms it yielded; a term that a later attach-enode line
\* attaches again is attributed to the open instantiation opened last, and to
\* that one only.
C37_Responsible == []C37_Inv /\ [][C37_Step]_vars

\* C37 witness: a term attached in the block of one instantiation was
\* attached again in a block nested in it; it is attributed to the inner one,
\* and both list it.
C37_Witness ==
    /\ line.tag = "attach-enode"
    /\ status = "ok"
    /\ consumed["attach-enode"] = 2
    /\ inst_stack = <<1, 2>>
    /\ \E t \in DOMAIN terms :
           /\ terms[t].resp_inst = Some(2)
           /\ t \in Range(instantiations[1].yields_terms)
           /\ t \in Range(instantiations[2].yields_terms)

\* The line numbers of the instantiation records.
C38_InstLines == {instantiations[i].line_no : i \in DOMAIN instantiations}

\* Every permanent Dependency points at the line of an existing record.
C38_Inv ==
    \A k \in DOMAIN dependencies :
        /\ IsSome(dependencies[k].to)
        /\ dependencies[k].to \in C38_InstLines

\* An end-of-instance line appends the bucket of the popped instantiation's
\* match, once, empties that bucket and leaves every other bucket alone; no
\* other line changes the permanent list.
C38_Step ==
    IF Handles("end-of-instance") /\ inst_stack # <<>>
    THEN LET m == instantiations[Last(inst_stack)].match_line_no IN
         /\ Len(dependencies') = Len(dependencies) + Len(temp_dependencies[m])
         /\ SubSeq(dependencies', 1, Len(dependencies)) = dependencies
         /\ temp_dependencies'[m] = <<>>
         /\ \A o \in DOMAIN temp_dependencies :
                o # m => temp_dependencies'[o] = temp_dependencies[o]
    ELSE dependencies' = dependencies

\* C38: every Dependency of the permanent list has its destination set to
\* the line number of an existing Instantiation record, and a provisional
\* Dependency is moved to the permanent list at most once: end-of-instance
\* empties the bucket it finalizes and changes no other bucket, so that a
\* fingerprint instantiated again duplicates no Dependency.
C38_MovedOnce == []C38_Inv /\ [][C38_Step]_vars

\* C38 witness: a match was instantiated twice and both blocks were closed;
\* its bucket is empty and the permanent list holds its one Dependency once.
C38_Witness ==
    /\ line.tag = "end-of-instance"
    /\ status = "ok"
    /\ inst_stack = <<>>
    /\ Len(instantiations) = 2
    /\ instantiations[1].match_line_no = instantiations[2].match_line_no
    /\ temp_dependencies[instantiations[1].match_line_no] = <<>>
    /\ Len(dependencies) = 1

\* The text a render of the visible graph of the latest reduction gives.
C39_Latest ==
    render_svg_element(dot_output(Unwrap(svg_result).inst_graph))

\* C39: when several RenderGraph requests each started a render, then once
\* the UpdateSvgText message of every one of them has been handled, in
\* whatever order they arrived, the stored SVG text is the rendering of the
\* most recent reduction (the one whose node and edge counts are displayed),
\* never that of an earlier request.
C39_LatestRenderStored ==
    (/\ IsSome(svg_result)
     /\ msgs.done # NoCompletion
     /\ msgs.renders = <<>>) =>
        Unwrap(svg_result).svg_text = C39_Latest

\* The numerators of the hues given so far.
C40_Hues ==
    LET r == Unwrap(svg_result) IN
    [k \in DOMAIN r.fillcolor |-> r.fillcolor[k].hue[1]]

\* C40: for a total quantifier count n >= 1, find_coprime(n) is a prime
\* >= 13 that does not divide n, and get maps the indices 0..n-1 to pairwise
\* distinct values (idx * coprime + shift) mod n, a permutation of 0..n-1, so
\* that distinct quantifiers have distinct hues; for n = 0 find_coprime is 1.
C40_DistinctHues ==
    LET r == Unwrap(svg_result)
        n == r.colour_map.total_nr_of_quants
        coprime == r.colour_map.coprime
    IN
    /\ n = 0 => coprime = 1
    /\ n >= 1 =>
        /\ coprime >= 13
        /\ \A d \in 2..(coprime - 1) : coprime % d # 0
        /\ n % coprime # 0
        /\ \A k \in DOMAIN C40_Hues :
               /\ C40_Hues[k] = ((k - 1) * coprime) % n
               /\ C40_Hues[k] \in 0..(n - 1)
               /\ r.fillcolor[k].hue[2] = n
        /\ \A j, k \in DOMAIN C40_Hues : j # k => C40_Hues[j] # C40_Hues[k]
        /\ Len(C40_Hues) = n => Range(C40_Hues) = 0..(n - 1)

\* C40 witness: a count that the first prime tried divides; every quantifier
\* has its hue.
C40_Witness ==
    LET r == Unwrap(svg_result) IN
    /\ r.colour_map.total_nr_of_quants = 26
    /\ r.colour_map.coprime = 17
    /\ Len(r.fillcolor) = 26

Next ==
    \/ \E id \in TermIds, children \in ChildLists : MkProofApp(id, children)
    \/ \E id \in TermIds, children \in ChildLists : MkQuant(id, children)
    \/ \E fp \in Fingerprints, p \in MatchPayloads : NewMatch(fp, p)
    \/ \E fp \in Fingerprints, p \in DiscoveredPayloads : InstDiscovered(fp, p)
    \/ \E fp \in Fingerprints, p \in InstancePayloads : Instance(fp, p)
    \/ EndOfInstance
    \/ consumed["attach-enode"] < MaxAttach
            /\ \E id \in TermIds, number_ok \in BOOLEAN : AttachEnode(id, number_ok)
    \/ EndOfStream

Spec == Init /\ [][Next]_vars

\* The header of a log: the declarations, then the meanings and the variable
\* names attached to them.  No other handler reads or writes these two fields.
NextMeta ==
    \/ \E id \in TermIds, children \in ChildLists : MkProofApp(id, children)
    \/ \E id \in TermIds, children \in ChildLists : MkQuant(id, children)
    \/ \E id \in TermIds, p \in MeaningPayloads : AttachMeaning(id, p)
    \/ \E id \in TermIds, p \in VarNamesPayloads : AttachVarNames(id, p)

SpecMeta == Init /\ [][NextMeta]_vars

\* The blamed tokens of the logs below: single ids and pairs.
BlameTokens == {Single(1), Pair(1, 2), Pair(1, 1)}
\* Most blamed tokens of a new-match line of these logs.
MaxBlame == 2
BlamePayloads ==
    {[quant |-> 2, pattern |-> 2, bound |-> <<>>, blamed |-> bl] :
        bl \in SeqsUpTo(BlameTokens, MaxBlame)}

\* Logs that declare a term #1 and a quantifier #2 and then explain
\* equalities of #1 and blame terms and equalities in the matches of #2.
NextBlame ==
    \/ MkProofApp(1, <<>>)
    \/ MkQuant(2, <<1>>)
    \/ \E p \in EqExplPayloads : EqExpl(1, p)
    \/ \E p \in BlamePayloads : NewMatch(10, p)
    \/ Instance(10, [term |-> None, tail |-> "end"])
    \/ EndOfInstance
    \/ consumed["attach-enode"] < MaxAttach /\ AttachEnode(1, TRUE)

SpecBlame == Init /\ [][NextBlame]_vars

\* Logs that declare a term #1 and a quantifier #2, instantiate #2 with no
\* blamed term, and attach #1 inside the blocks, more than once.
NextAttach ==
    \/ MkProofApp(1, <<>>)
    \/ MkQuant(2, <<1>>)
    \/ \E fp \in Fingerprints :
           NewMatch(fp, [quant |-> 2, pattern |-> 2, bound |-> <<>>, blamed |-> <<>>])
    \/ \E fp \in Fingerprints : Instance(fp, [term |-> None, tail |-> "end"])
    \/ EndOfInstance
    \/ AttachEnode(1, TRUE)

SpecAttach == Init /\ [][NextAttach]_vars

\* Logs that declare two terms and then explain their equalities.
NextExpl ==
    \/ \E id \in TermIds : MkProofApp(id, <<>>)
    \/ \E id \in TermIds, p \in ExplPayloads : EqExpl(id, p)

SpecExpl == Init /\ [][NextExpl]_vars

\* The messages of the component while every reduction stays below the
\* thresholds of the gate.
NextFilters ==
    \/ Rendered /\ \E filter \in Filters, has_path \in BOOLEAN :
                       ApplyFilter(filter, has_path)
    \/ Rendered /\ ResetGraph
    \/ Rendered /\ \E permission \in BOOLEAN : RenderGraph(permission)
    \/ \E i \in 1..MaxRenders : UpdateSvgText(i)

SpecFilters == InitFilters /\ [][NextFilters]_vars

\* The messages of the component, the dialog of the gate included; the
\* filters hide the first node or show its children, and return no path.
GateFilters ==
    {f \in Filters :
        f.node = 1 /\ f.kind # "ShowSourceTree" /\ f.direction = "Outgoing"}
NextGate ==
    \/ Rendered /\ \E filter \in GateFilters : ApplyFilter(filter, FALSE)
    \/ Rendered /\ ResetGraph
    \/ Rendered /\ RenderGraph(FALSE)
    \/ msgs.sent.kind = "RenderGraph" /\ RenderGraph(TRUE)
    \/ \E answer \in Answers : GetUserPermission(answer)
    \/ \E i \in 1..MaxRenders : UpdateSvgText(i)

SpecGate == InitGate /\ [][NextGate]_vars

\* The messages of the component while renders are in flight: a request is
\* handled before the renders of earlier ones are done, and the renders end
\* in any order.  The filters hide a node and return no path.
RenderFilters == {f \in Filters : f.kind = "Hide"}
NextRender ==
    \/ \E filter \in RenderFilters : ApplyFilter(filter, FALSE)
    \/ ResetGraph
    \/ RenderGraph(FALSE)
    \/ \E i \in 1..MaxRenders : UpdateSvgText(i)

SpecRender == InitRender /\ [][NextRender]_vars

\* The nodes of the graph description are coloured, quantifier by
\* quantifier.
NextColours == FillColour

SpecColours == InitColours /\ [][NextColours]_vars

====
